---- MODULE Spec2Model ----
(***************************************************************************)
(* A model of the duckgeogpt map application.                              *)
(*                                                                         *)
(* Part I  : the engine singleton of services/duckdbService.ts             *)
(*           (initializeDuckDB, loadParquetFiles, queryDuckDB).            *)
(* Part II : the layer/session state of components/Map.tsx and the export  *)
(*           panel of components/ExportPanel.tsx.                          *)
(* Part III: the chat of components/ChatBox.tsx (handleQuery,              *)
(*           convertToGeoJSON) and the resolver of services/openaiService.ts.*)
(* Part IV : the older, rule-based handleQuery kept in src/unnamed/part_001.*)
(***************************************************************************)
EXTENDS Integers, Sequences, FiniteSets, TLC

VARIABLES
    db,                     \* module variable db: 0 = null, r = the AsyncDuckDB made by setup run r
    initializationPromise,  \* module variable: 0 = null, r = the promise of setup run r
    setupPc,                \* the await the in-flight setup closure is suspended at ("idle": none in flight)
    setupRuns,              \* number of times the setup closure has been started
    promiseState,           \* promiseState[r]: "none" | "pending" | "resolved" | "rejected"
    engine,                 \* engine[r]: what has been done to the AsyncDuckDB object of run r
    filesChecked,           \* loadParquetFiles locals: the files fetched and magic-checked so far
    engineCalls,            \* calls issued to the engine collaborator, by kind
    openConns,              \* connections opened and not yet closed
    caller,                 \* caller[c]: one call of initializeDuckDB or queryDuckDB and its position
    queryHistory,           \* Map.tsx state: the ordered layers (QueryResult records)
    viewState,              \* Map.tsx state: the viewport
    queryResults,           \* Map.tsx state: the latest result, or null
    currentQueryName,       \* Map.tsx state
    currentLocation,        \* Map.tsx state: the location label
    nowMs,                  \* the last reading of Date.now()
    pendingCenter,          \* places whose Nominatim request (handleCenterMap) is in flight
    newestCenter,           \* the place handleCenterMap was last called with, and what became of its request
    selectedQueries,        \* ExportPanel.tsx state: the selected layer ids
    exportFormat,           \* ExportPanel.tsx state: "geojson" | "csv"
    download,               \* the document handed to the browser by the last step, if any
    lastCall,               \* the handler that ran in the last step, and a count
    loading,                \* ChatBox.tsx state: a handleQuery is in flight
    messages,               \* ChatBox.tsx state: the messages posted after the greeting
    handleQueryPc,          \* the await the handleQuery in flight is suspended at ("idle": none)
    queryText,              \* the argument of the handleQuery in flight
    queryIntent,            \* handleQuery local: the intent the resolver returned
    result,                 \* handleQuery local: the rows queryDuckDB returned
    submitted,              \* ChatBox.tsx state queryHistory: the texts that gave a layer
    serviceCalls,           \* calls of generateContent issued to the reasoning service
    executed,               \* the statements handed to queryDuckDB
    pipeline,               \* the steps the current handleQuery has taken, in order
    submits                 \* number of handleQuery calls started

engineVars == <<db, initializationPromise, setupPc, setupRuns, promiseState, engine,
                filesChecked, engineCalls, openConns, caller>>

sessionVars == <<queryHistory, viewState, queryResults, currentQueryName, currentLocation,
                 nowMs, pendingCenter, newestCenter, selectedQueries, exportFormat,
                 download, lastCall>>

chatVars == <<loading, messages, handleQueryPc, queryText, queryIntent, result, submitted,
              serviceCalls, executed, pipeline, submits>>

vars == <<engineVars, sessionVars, chatVars>>

-----------------------------------------------------------------------------
(* Bounds of the model *)

NumCallers == 2
MaxLayers == 3
MaxClock == 2
MaxPending == 1
MaxPaletteClock == 10
MaxExportLayers == 2
MaxSubmits == 2
MaxRows == 2
MaxCenterRequests == 2

\* Each caller is one call of initializeDuckDB or queryDuckDB; a call starts
\* at most one setup run.
Callers == 1..NumCallers
Runs == 1..NumCallers

-----------------------------------------------------------------------------
(* Part I: services/duckdbService.ts *)

Files == <<"buildings", "roads", "landuse">>
FileSet == {Files[i] : i \in 1..Len(Files)}

NewEngine == [instantiated |-> FALSE, spatial |-> FALSE, registered |-> {}]

NoCalls == [instantiate |-> 0, install |-> 0, load |-> 0,
            buildings |-> 0, roads |-> 0, landuse |-> 0]

IdleCaller == [pc |-> "idle", kind |-> "none", h |-> 0, via |-> "none"]

\* The call ended with an error (lines 198-201): the caller holds no handle.
FailedCaller == [pc |-> "failed", kind |-> "none", h |-> 0, via |-> "none"]

\* A handle is working when setup has completed on its engine object.
Working(r) ==
    /\ r \in Runs
    /\ engine[r].instantiated
    /\ engine[r].spatial
    /\ engine[r].registered = FileSet

InitEngine ==
    /\ db = 0
    /\ initializationPromise = 0
    /\ setupPc = "idle"
    /\ setupRuns = 0
    /\ promiseState = [r \in Runs |-> "none"]
    /\ engine = [r \in Runs |-> NewEngine]
    /\ filesChecked = {}
    /\ engineCalls = NoCalls
    /\ openConns = 0
    /\ caller = [c \in Callers |-> IdleCaller]

\* A catch block that forgets to clear the promise: the rejected promise
\* stays cached.
catchInitErrorKeepsPromise ==
    /\ db' = 0
    /\ initializationPromise' = initializationPromise
    /\ promiseState' = [promiseState EXCEPT ![initializationPromise] = "rejected"]
    /\ setupPc' = "idle"
    /\ filesChecked' = {}

\* Lines 63-68: the catch block of the setup closure. The promise of the run
\* is rejected and both module variables are reset.
catchInitError ==
    /\ db' = 0
    /\ initializationPromise' = 0
    /\ promiseState' = [promiseState EXCEPT ![initializationPromise] = "rejected"]
    /\ setupPc' = "idle"
    /\ filesChecked' = {}

\* initializeDuckDB without the in-flight check of lines 12-14.
initializeDuckDBNoPromiseCheck(c, k) ==
    /\ caller[c].pc = "idle"
    /\ IF db # 0
       THEN /\ caller' = [caller EXCEPT ![c] =
                             [pc |-> "got", kind |-> k, h |-> db, via |-> "db"]]
            /\ UNCHANGED <<initializationPromise, setupPc, setupRuns, promiseState>>
       ELSE /\ setupRuns' = setupRuns + 1
            /\ initializationPromise' = setupRuns + 1
            /\ promiseState' = [promiseState EXCEPT ![setupRuns + 1] = "pending"]
            /\ setupPc' = "selectBundle"
            /\ caller' = [caller EXCEPT ![c] =
                             [pc |-> "awaitInit", kind |-> k,
                              h |-> setupRuns + 1, via |-> "promise"]]
    /\ UNCHANGED <<db, engine, filesChecked, engineCalls, openConns>>

\* Lines 6-72, the synchronous part of a call by task c (k: "init" for a
\* direct call, "query" for the call made by queryDuckDB at line 171).
initializeDuckDB(c, k) ==
    /\ caller[c].pc = "idle"
    /\ IF db # 0
       THEN \* lines 7-9
            /\ caller' = [caller EXCEPT ![c] =
                             [pc |-> "got", kind |-> k, h |-> db, via |-> "db"]]
            /\ UNCHANGED <<initializationPromise, setupPc, setupRuns, promiseState>>
       ELSE IF initializationPromise # 0
       THEN \* lines 12-14
            /\ caller' = [caller EXCEPT ![c] =
                             [pc |-> "awaitInit", kind |-> k,
                              h |-> initializationPromise, via |-> "promise"]]
            /\ UNCHANGED <<initializationPromise, setupPc, setupRuns, promiseState>>
       ELSE \* lines 16-71: the closure starts and runs to its first await
            /\ setupRuns' = setupRuns + 1
            /\ initializationPromise' = setupRuns + 1
            /\ promiseState' = [promiseState EXCEPT ![setupRuns + 1] = "pending"]
            /\ setupPc' = "selectBundle"
            /\ caller' = [caller EXCEPT ![c] =
                             [pc |-> "awaitInit", kind |-> k,
                              h |-> setupRuns + 1, via |-> "promise"]]
    /\ UNCHANGED <<db, engine, filesChecked, engineCalls, openConns>>

InitializeCall(c) == initializeDuckDB(c, "init") /\ UNCHANGED <<sessionVars, chatVars>>

\* Line 171: queryDuckDB begins by awaiting initializeDuckDB().
QueryCall(c) == initializeDuckDB(c, "query") /\ UNCHANGED <<sessionVars, chatVars>>

\* Lines 25-30: selectBundle resolves; a bundle without a worker URL throws.
SelectBundle ==
    /\ setupPc = "selectBundle"
    /\ \E mainWorker \in BOOLEAN :
          IF mainWorker
          THEN /\ setupPc' = "createWorker"
               /\ UNCHANGED <<db, initializationPromise, promiseState, filesChecked>>
          ELSE catchInitError
    /\ UNCHANGED <<setupRuns, engine, engineCalls, openConns, caller>>
    /\ UNCHANGED <<sessionVars, chatVars>>

\* Lines 33-37: the worker is created and db is assigned the new, not yet
\* instantiated, AsyncDuckDB.
CreateWorker ==
    /\ setupPc = "createWorker"
    /\ db' = initializationPromise
    /\ setupPc' = "instantiate"
    /\ UNCHANGED <<initializationPromise, setupRuns, promiseState, engine,
                   filesChecked, engineCalls, openConns, caller>>
    /\ UNCHANGED <<sessionVars, chatVars>>

\* Line 40.
Instantiate ==
    /\ setupPc = "instantiate"
    /\ engine' = [engine EXCEPT ![db].instantiated = TRUE]
    /\ engineCalls' = [engineCalls EXCEPT !.instantiate = @ + 1]
    /\ setupPc' = "spatialConnect"
    /\ UNCHANGED <<db, initializationPromise, setupRuns, promiseState,
                   filesChecked, openConns, caller>>
    /\ UNCHANGED <<sessionVars, chatVars>>

\* Line 45.
SpatialConnect ==
    /\ setupPc = "spatialConnect"
    /\ openConns' = openConns + 1
    /\ setupPc' = "install"
    /\ UNCHANGED <<db, initializationPromise, setupRuns, promiseState, engine,
                   filesChecked, engineCalls, caller>>
    /\ UNCHANGED <<sessionVars, chatVars>>

\* Line 46.
InstallSpatial ==
    /\ setupPc = "install"
    /\ engineCalls' = [engineCalls EXCEPT !.install = @ + 1]
    /\ setupPc' = "load"
    /\ UNCHANGED <<db, initializationPromise, setupRuns, promiseState, engine,
                   filesChecked, openConns, caller>>
    /\ UNCHANGED <<sessionVars, chatVars>>

\* Line 47.
LoadSpatial ==
    /\ setupPc = "load"
    /\ engineCalls' = [engineCalls EXCEPT !.load = @ + 1]
    /\ engine' = [engine EXCEPT ![db].spatial = TRUE]
    /\ setupPc' = "spatialClose"
    /\ UNCHANGED <<db, initializationPromise, setupRuns, promiseState,
                   filesChecked, openConns, caller>>
    /\ UNCHANGED <<sessionVars, chatVars>>

\* Lines 49-52 and 75: the connection is closed and loadParquetFiles is
\* entered; it returns at once when db is null.
SpatialClose ==
    /\ setupPc = "spatialClose"
    /\ openConns' = openConns - 1
    /\ setupPc' = IF db = 0 THEN "testConnect" ELSE "fetch"
    /\ filesChecked' = {}
    /\ UNCHANGED <<db, initializationPromise, setupRuns, promiseState, engine,
                   engineCalls, caller>>
    /\ UNCHANGED <<sessionVars, chatVars>>

\* Registration begun as soon as one file has passed its check.
AfterCheckRegisterAtOnce(checked) == "register"

\* Lines 97, 113 and 130-131: after a file has passed its check the next
\* file is fetched; registerFileBuffer is first called after the third.
AfterCheck(checked) == IF checked = Len(Files) THEN "register" ELSE "fetch"

\* Lines 81-128: the next file is fetched and its first four bytes are
\* compared with 'PAR1'. A failed fetch or a mismatch throws; the error is
\* wrapped at lines 136-140 and reaches the catch block of the closure.
FetchFile ==
    /\ setupPc = "fetch"
    /\ \E ok \in BOOLEAN, magic \in BOOLEAN :
          IF ok /\ magic
          THEN /\ filesChecked' = filesChecked \cup {Files[Cardinality(filesChecked) + 1]}
               /\ setupPc' = AfterCheck(Cardinality(filesChecked) + 1)
               /\ UNCHANGED <<db, initializationPromise, promiseState>>
          ELSE catchInitError
    /\ UNCHANGED <<setupRuns, engine, engineCalls, openConns, caller>>
    /\ UNCHANGED <<sessionVars, chatVars>>

\* Lines 131-133: registerFileBuffer for the next file, in the order
\* buildings, roads, landuse.
RegisterFile ==
    /\ setupPc = "register"
    /\ LET n == Cardinality(engine[db].registered) + 1
           f == Files[n]
       IN /\ engine' = [engine EXCEPT ![db].registered = @ \cup {f}]
          /\ engineCalls' = [engineCalls EXCEPT ![f] = @ + 1]
          /\ setupPc' = IF n = Len(Files) THEN "testConnect" ELSE "register"
    /\ UNCHANGED <<db, initializationPromise, setupRuns, promiseState,
                   filesChecked, openConns, caller>>
    /\ UNCHANGED <<sessionVars, chatVars>>

\* Line 56.
TestConnect ==
    /\ setupPc = "testConnect"
    /\ openConns' = openConns + 1
    /\ setupPc' = "testQuery"
    /\ UNCHANGED <<db, initializationPromise, setupRuns, promiseState, engine,
                   filesChecked, engineCalls, caller>>
    /\ UNCHANGED <<sessionVars, chatVars>>

\* Line 57.
TestQuery ==
    /\ setupPc = "testQuery"
    /\ setupPc' = "testClose"
    /\ UNCHANGED <<db, initializationPromise, setupRuns, promiseState, engine,
                   filesChecked, engineCalls, openConns, caller>>
    /\ UNCHANGED <<sessionVars, chatVars>>

\* Lines 59-62: the test connection is closed and the closure returns db,
\* which resolves the promise.
TestClose ==
    /\ setupPc = "testClose"
    /\ openConns' = openConns - 1
    /\ promiseState' = [promiseState EXCEPT ![initializationPromise] = "resolved"]
    /\ setupPc' = "idle"
    /\ UNCHANGED <<db, initializationPromise, setupRuns, engine,
                   filesChecked, engineCalls, caller>>
    /\ UNCHANGED <<sessionVars, chatVars>>

\* Any awaited engine or worker call of lines 25-59 may reject; control goes
\* to the catch block. A connection open at that point is not closed.
SetupStepFails ==
    /\ setupPc \in {"selectBundle", "createWorker", "instantiate", "spatialConnect",
                    "install", "load", "spatialClose", "register",
                    "testConnect", "testQuery", "testClose"}
    /\ catchInitError
    /\ UNCHANGED <<setupRuns, engine, engineCalls, openConns, caller>>
    /\ UNCHANGED <<sessionVars, chatVars>>

\* The promise a caller awaits has settled: the caller resumes with the
\* value the closure returned (line 62) or with its error (line 67).
PromiseSettles(c) ==
    /\ caller[c].pc = "awaitInit"
    /\ promiseState[caller[c].h] \in {"resolved", "rejected"}
    /\ caller' = [caller EXCEPT ![c] =
                     IF promiseState[caller[c].h] = "resolved"
                     THEN [@ EXCEPT !.pc = "got"] ELSE FailedCaller]
    /\ UNCHANGED <<db, initializationPromise, setupPc, setupRuns, promiseState, engine,
                   filesChecked, engineCalls, openConns>>
    /\ UNCHANGED <<sessionVars, chatVars>>

\* Line 174: database.connect() on the handle initializeDuckDB returned. The
\* worker refuses a connection to an engine that is not instantiated.
Connect(c) ==
    /\ caller[c].pc = "got"
    /\ caller[c].kind = "query"
    /\ IF engine[caller[c].h].instantiated
       THEN /\ openConns' = openConns + 1
            /\ caller' = [caller EXCEPT ![c] = [@ EXCEPT !.pc = "connected", !.via = "none"]]
       ELSE /\ caller' = [caller EXCEPT ![c] = FailedCaller]
            /\ UNCHANGED openConns
    /\ UNCHANGED <<db, initializationPromise, setupPc, setupRuns, promiseState, engine,
                   filesChecked, engineCalls>>
    /\ UNCHANGED <<sessionVars, chatVars>>

\* Lines 177-192 and 198-201: connection.query(query). The statement reads a
\* registered file through the spatial extension, so it can succeed only on
\* a working engine; any statement may also be rejected by the engine. On an
\* error the catch block rethrows without closing the connection.
RunQuery(c) ==
    /\ caller[c].pc = "connected"
    /\ \E ok \in BOOLEAN :
          IF ok /\ Working(caller[c].h)
          THEN caller' = [caller EXCEPT ![c].pc = "queried"]
          ELSE caller' = [caller EXCEPT ![c] = FailedCaller]
    /\ UNCHANGED <<db, initializationPromise, setupPc, setupRuns, promiseState, engine,
                   filesChecked, engineCalls, openConns>>
    /\ UNCHANGED <<sessionVars, chatVars>>

\* Lines 194-197.
CloseConnection(c) ==
    /\ caller[c].pc = "queried"
    /\ openConns' = openConns - 1
    /\ caller' = [caller EXCEPT ![c].pc = "done"]
    /\ UNCHANGED <<db, initializationPromise, setupPc, setupRuns, promiseState, engine,
                   filesChecked, engineCalls>>
    /\ UNCHANGED <<sessionVars, chatVars>>

NextEngine ==
    \/ \E c \in Callers : InitializeCall(c)
    \/ \E c \in Callers : QueryCall(c)
    \/ SelectBundle
    \/ CreateWorker
    \/ Instantiate
    \/ SpatialConnect
    \/ InstallSpatial
    \/ LoadSpatial
    \/ SpatialClose
    \/ FetchFile
    \/ RegisterFile
    \/ TestConnect
    \/ TestQuery
    \/ TestClose
    \/ SetupStepFails
    \/ \E c \in Callers : PromiseSettles(c)
    \/ \E c \in Callers : Connect(c)
    \/ \E c \in Callers : RunQuery(c)
    \/ \E c \in Callers : CloseConnection(c)

-----------------------------------------------------------------------------
(* Part II: components/Map.tsx *)

Digits == <<"0", "1", "2", "3", "4", "5", "6", "7", "8", "9">>

\* Number.prototype.toString for a non-negative integer: its decimal digits.
RECURSIVE toString(_)
toString(n) ==
    IF n < 10 THEN <<Digits[n + 1]>>
    ELSE toString(n \div 10) \o <<Digits[(n % 10) + 1]>>

\* Coordinates are in tenths of a degree. A position is a pair; the pitch,
\* bearing and padding of a ViewState are always written as zero and are
\* left out.
At(lon, lat, zoom) == [kind |-> "at", a |-> <<lon, lat, zoom>>]

\* Lines 12-21.
INITIAL_VIEW_STATE == At(267, 584, 13)

\* JavaScript null for a geometry and for queryResults.
NullGeometry == [type |-> "null", coordinates |-> <<>>]
NullResults == [type |-> "null", features |-> <<>>]

PointFeature ==
    [type |-> "Feature", id |-> 0,
     geometry |-> [type |-> "Point", coordinates |-> <<267, 583>>],
     properties |-> [name |-> "kiosk"]]

LineFeature ==
    [type |-> "Feature", id |-> 1,
     geometry |-> [type |-> "LineString",
                   coordinates |-> << <<247, 594>>, <<250, 595>>, <<252, 593>> >>],
     properties |-> [name |-> "road"]]

\* The value JSON.parse gives for the string handed to handleQueryGenerated:
\* parses is FALSE when JSON.parse throws, hasFeatures is FALSE when the
\* parsed value has no features member.
ParsedInput(parses, hasFeatures, features) ==
    [parses |-> parses, hasFeatures |-> hasFeatures, features |-> features]

GeoJSONInputs ==
    {ParsedInput(FALSE, FALSE, <<>>),
     ParsedInput(TRUE, FALSE, <<>>),
     ParsedInput(TRUE, TRUE, <<>>),
     ParsedInput(TRUE, TRUE, <<PointFeature>>),
     ParsedInput(TRUE, TRUE, <<PointFeature, LineFeature>>)}

\* The label argument: << >> stands for undefined and for the empty string,
\* which `label || ...` treats alike.
Labels == {<< >>, <<"buildings">>}

\* Coordinates are non-negative integers. NaN stands for the number NaN,
\* JsonNull for the null that JSON.stringify writes in its place.
NaN == -1
JsonNull == -2

\* The number Math.min and Math.max make of an argument: null counts as 0.
ToNumber(x) == IF x = JsonNull THEN 0 ELSE x

RECURSIVE Flat(_)
\* Array.prototype.flat() on an array of arrays.
Flat(ss) == IF ss = <<>> THEN <<>> ELSE Head(ss) \o Flat(Tail(ss))

\* Lines 55-66: the positions of one feature.
CoordsOf(f) ==
    LET g == f.geometry
        c == g.coordinates
    IN CASE g.type = "null" -> <<>>
         [] g.type = "Point" -> <<c>>
         [] g.type \in {"MultiPoint", "LineString"} -> c
         [] g.type \in {"Polygon", "MultiLineString"} -> Flat(c)
         [] g.type = "MultiPolygon" -> Flat(Flat(c))
         [] OTHER -> <<>>

RECURSIVE FlatMapCoords(_)
\* Line 54: features.flatMap(...).
FlatMapCoords(features) ==
    IF features = <<>> THEN <<>>
    ELSE CoordsOf(Head(features)) \o FlatMapCoords(Tail(features))

MinOf(xs) == CHOOSE m \in {xs[i] : i \in 1..Len(xs)} : \A i \in 1..Len(xs) : m <= xs[i]
MaxOf(xs) == CHOOSE m \in {xs[i] : i \in 1..Len(xs)} : \A i \in 1..Len(xs) : m >= xs[i]

\* Lines 49-101: the viewport after fitViewportToFeatures(features). The
\* result of WebMercatorViewport.fitBounds is kept as the bounds it was given.
fitViewportToFeatures(view, features) ==
    IF Len(features) = 0 THEN view
    ELSE LET coords == FlatMapCoords(features)
             lons == [i \in 1..Len(coords) |-> ToNumber(coords[i][1])]
             lats == [i \in 1..Len(coords) |-> ToNumber(coords[i][2])]
         IN IF Len(coords) = 0 THEN view
            ELSE [kind |-> "fit",
                  a |-> <<MinOf(lons), MinOf(lats), MaxOf(lons), MaxOf(lats)>>]

NoDownload == [kind |-> "none", body |-> <<>>]

\* No call of handleCenterMap yet.
NoCenterRequest == [place |-> <<>>, state |-> "none"]

Call(op, n) == [op |-> op, n |-> n]

InitSession ==
    /\ queryHistory = <<>>
    /\ viewState = INITIAL_VIEW_STATE
    /\ queryResults = NullResults
    /\ currentQueryName = <<>>
    /\ currentLocation = "Estonia"
    /\ nowMs = 1
    /\ pendingCenter = <<>>
    /\ newestCenter = NoCenterRequest
    /\ selectedQueries = <<>>
    /\ exportFormat = "geojson"
    /\ download = NoDownload
    /\ lastCall = Call("none", 0)

\* The record a handler leaves of itself: its name and a count (the features
\* it was given, or the layers it found).
Ran(op, n) == lastCall' = Call(op, n)

\* The test of line 110 without its length check.
HasFeaturesNoLengthCheck(geoJSON) == geoJSON.hasFeatures

\* Line 110: geoJSON.features && geoJSON.features.length > 0.
HasFeatures(geoJSON) == geoJSON.hasFeatures /\ Len(geoJSON.features) > 0

\* An updater that replaces the layers instead of appending.
ReplaceLayers(prev, newQuery) == <<newQuery>>

\* Line 126: prev => [...prev, newQuery].
AppendLayer(prev, newQuery) == Append(prev, newQuery)

\* Lines 104-139, the state the handler writes. t is the reading of
\* Date.now() at line 119; the name uses the length of queryHistory the
\* handler sees (line 117).
applyQueryResult(geoJSON, label, t) ==
    IF geoJSON.parses /\ HasFeatures(geoJSON)
    THEN LET queryName == IF label # <<>> THEN label
                          ELSE <<"Query ">> \o toString(Len(queryHistory) + 1)
             data == [type |-> "FeatureCollection", features |-> geoJSON.features]
             newQuery == [id |-> toString(t), name |-> queryName, data |-> data,
                          timestamp |-> t, visible |-> TRUE]
         IN /\ queryResults' = data
            /\ queryHistory' = AppendLayer(queryHistory, newQuery)
            /\ currentQueryName' = queryName
            /\ viewState' = fitViewportToFeatures(viewState, geoJSON.features)
            /\ nowMs' = t
    ELSE UNCHANGED <<queryResults, queryHistory, currentQueryName, viewState, nowMs>>

\* Lines 104-139: handleQueryGenerated called on its own.
handleQueryGenerated(geoJSON, label, t) ==
    /\ applyQueryResult(geoJSON, label, t)
    /\ Ran("handleQueryGenerated", IF geoJSON.parses /\ geoJSON.hasFeatures THEN Len(geoJSON.features) ELSE -1)
    /\ download' = NoDownload
    /\ UNCHANGED <<currentLocation, pendingCenter, newestCenter, selectedQueries, exportFormat>>
    /\ UNCHANGED <<engineVars, chatVars>>

\* Lines 142-146: the request to the place resolver is sent.
handleCenterMap(place) ==
    /\ pendingCenter' = Append(pendingCenter, place)
    /\ newestCenter' = [place |-> place, state |-> "pending"]
    /\ UNCHANGED <<viewState, currentLocation>>

\* What the place resolver answers for a place: lon and lat.
ResolverPosition(place) ==
    CASE place = "Tallinn" -> <<247, 594>>
      [] place = "Narva" -> <<282, 594>>
      [] OTHER -> <<267, 584>>

RemoveAt(seq, i) == SubSeq(seq, 1, i - 1) \o SubSeq(seq, i + 1, Len(seq))

\* A viewport with the two coordinates of the result exchanged.
CenteredOnSwapped(lon, lat) == At(lat, lon, 13)

\* Lines 149-156: the viewport written for a result.
CenteredOn(lon, lat) == At(lon, lat, 13)

\* Lines 146-161: the resolver's answer to request i arrives (found), is an
\* empty list (empty), or the fetch fails (error). The request made last is
\* the last of pendingCenter while it is in flight.
CenterResponse(i, outcome) ==
    /\ i \in 1..Len(pendingCenter)
    /\ pendingCenter' = RemoveAt(pendingCenter, i)
    /\ newestCenter' =
          IF i = Len(pendingCenter) /\ newestCenter.state = "pending"
          THEN [newestCenter EXCEPT !.state = IF outcome = "found" THEN "found" ELSE "nothing"]
          ELSE newestCenter
    /\ IF outcome = "found"
       THEN /\ viewState' = CenteredOn(ResolverPosition(pendingCenter[i])[1],
                                       ResolverPosition(pendingCenter[i])[2])
            /\ currentLocation' = pendingCenter[i]
       ELSE UNCHANGED <<viewState, currentLocation>>
    /\ Ran("centerResponse", 0)
    /\ download' = NoDownload
    /\ UNCHANGED <<queryHistory, queryResults, currentQueryName, nowMs,
                   selectedQueries, exportFormat>>
    /\ UNCHANGED <<engineVars, chatVars>>

\* A test that is content with one coordinate.
HasCoordinatesEither(lat, lon) == lat # 0 \/ lon # 0

\* Line 166: lat !== 0 && lon !== 0.
HasCoordinates(lat, lon) == lat # 0 /\ lon # 0

\* Lines 165-179.
handleLocationSelect(place, lat, lon) ==
    /\ IF HasCoordinates(lat, lon)
       THEN /\ viewState' = At(lon, lat, 13)
            /\ currentLocation' = place
            /\ UNCHANGED <<pendingCenter, newestCenter>>
       ELSE handleCenterMap(place)
    /\ Ran("handleLocationSelect", 0)
    /\ download' = NoDownload
    /\ UNCHANGED <<queryHistory, queryResults, currentQueryName, nowMs,
                   selectedQueries, exportFormat>>
    /\ UNCHANGED <<engineVars, chatVars>>

\* Line 186 without the spread: { visible: !query.visible }, every other
\* field of the layer undefined.
ToggledLayerNoSpread(query) ==
    [id |-> <<>>, name |-> <<>>, data |-> NullResults, timestamp |-> 0,
     visible |-> ~query.visible]

\* Line 186: { ...query, visible: !query.visible }.
ToggledLayer(query) == [query EXCEPT !.visible = ~@]

\* The mapped function without the id test of line 185.
ToggleWhatever(query, queryId) == ToggledLayer(query)

\* Lines 184-188: the function mapped over the layers.
ToggleIfMatch(query, queryId) ==
    IF query.id = queryId THEN ToggledLayer(query) ELSE query

\* Lines 182-190.
toggleLayerVisibility(queryId) ==
    /\ queryHistory' = [i \in 1..Len(queryHistory) |-> ToggleIfMatch(queryHistory[i], queryId)]
    /\ Ran("toggleLayerVisibility", Len(queryHistory))
    /\ download' = NoDownload
    /\ UNCHANGED <<viewState, queryResults, currentQueryName, currentLocation, nowMs,
                   pendingCenter, newestCenter, selectedQueries, exportFormat>>
    /\ UNCHANGED <<engineVars, chatVars>>

\* The filter of line 194 with the comparison inverted.
KeepMatching(prev, queryId) == SelectSeq(prev, LAMBDA query : query.id = queryId)

\* Line 194: prev.filter(query => query.id !== queryId).
KeepOthers(prev, queryId) == SelectSeq(prev, LAMBDA query : query.id # queryId)

\* Lines 193-195.
removeLayer(queryId) ==
    /\ queryHistory' = KeepOthers(queryHistory, queryId)
    /\ Ran("removeLayer", Len(queryHistory))
    /\ download' = NoDownload
    /\ UNCHANGED <<viewState, queryResults, currentQueryName, currentLocation, nowMs,
                   pendingCenter, newestCenter, selectedQueries, exportFormat>>
    /\ UNCHANGED <<engineVars, chatVars>>

\* Line 199: the layers after clearAllLayers.
ClearedLayers(prev) == <<>>

\* Lines 198-201.
clearAllLayers ==
    /\ queryHistory' = ClearedLayers(queryHistory)
    /\ queryResults' = NullResults
    /\ Ran("clearAllLayers", Len(queryHistory))
    /\ download' = NoDownload
    /\ UNCHANGED <<viewState, currentQueryName, currentLocation, nowMs,
                   pendingCenter, newestCenter, selectedQueries, exportFormat>>
    /\ UNCHANGED <<engineVars, chatVars>>

\* Lines 210-218.
colors ==
    << <<255, 165, 0, 180>>,
       <<0, 255, 0, 180>>,
       <<255, 0, 255, 180>>,
       <<0, 255, 255, 180>>,
       <<255, 255, 0, 180>>,
       <<255, 0, 0, 180>>,
       <<0, 0, 255, 180>> >>

\* The colour taken by position among the render layers pushed so far.
ColorAtOutLength(index, out) == colors[(Len(out) % Len(colors)) + 1]

\* Line 220: colors[index % colors.length]; index is the position in
\* queryHistory (from 0), out the render layers pushed so far.
ColorAt(index, out) == colors[(index % Len(colors)) + 1]

\* Line 221: each channel times 0.7, written in tenths (1785 for 178.5).
LineColorOf(color) == <<color[1] * 7, color[2] * 7, color[3] * 7>>

\* Lines 224-235: the GeoJsonLayer made for a visible layer.
GeoJsonLayer(query, index, out) ==
    [id |-> <<"query-">> \o query.id,
     data |-> query.data,
     pickable |-> TRUE,
     getLineColor |-> LineColorOf(ColorAt(index, out)),
     getFillColor |-> ColorAt(index, out)]

\* Lines 204-242: the render-layer list derived from queryHistory.
layers ==
    LET out[n \in 0..Len(queryHistory)] ==
            IF n = 0 THEN <<>>
            ELSE IF queryHistory[n].visible
                 THEN Append(out[n - 1], GeoJsonLayer(queryHistory[n], n - 1, out[n - 1]))
                 ELSE out[n - 1]
    IN out[Len(queryHistory)]

-----------------------------------------------------------------------------
(* Part II: components/ExportPanel.tsx *)

\* A stamp that writes the layer's id in both members.
StampedFeatureIdAsName(feature, query) ==
    [feature EXCEPT !.properties =
        [query_name |-> query.id, query_id |-> query.id] @@ feature.properties]

\* Lines 37-44: a copy of the feature with the layer's name and id added to
\* its properties.
StampedFeature(feature, query) ==
    [feature EXCEPT !.properties =
        [query_name |-> query.name, query_id |-> query.id] @@ feature.properties]

\* Lines 36-45: queries.flatMap(query => query.data.features.map(...)).
GeoJSONFeatures(queries) ==
    LET acc[n \in 0..Len(queries)] ==
            IF n = 0 THEN <<>>
            ELSE acc[n - 1] \o
                 [i \in 1..Len(queries[n].data.features) |->
                     StampedFeature(queries[n].data.features[i], queries[n])]
    IN acc[Len(queries)]

\* Lines 64-70: the CSV row of a feature.
CsvRow(feature, query) ==
    [query_name |-> query.name, query_id |-> query.id,
     geometry_type |-> feature.geometry.type,
     coordinates |-> feature.geometry.coordinates] @@ feature.properties

\* Lines 63-72: queries.flatMap(query => query.data.features.map(...)).
CsvRows(queries) ==
    LET acc[n \in 0..Len(queries)] ==
            IF n = 0 THEN <<>>
            ELSE acc[n - 1] \o
                 [i \in 1..Len(queries[n].data.features) |->
                     CsvRow(queries[n].data.features[i], queries[n])]
    IN acc[Len(queries)]

\* Lines 75-86: the header is the key set of the first row; every row is cut
\* to the header, a key the row lacks giving an empty cell.
CsvContent(rows) ==
    LET headers == DOMAIN rows[1]
    IN [headers |-> headers,
        lines |-> [i \in 1..Len(rows) |->
                     [h \in headers |-> IF h \in DOMAIN rows[i]
                                        THEN <<rows[i][h]>> ELSE <<>>]]]

\* Line 24.
QueriesToExport ==
    SelectSeq(queryHistory,
              LAMBDA q : \E k \in 1..Len(selectedQueries) : selectedQueries[k] = q.id)

\* The layers after an export: both formats build new objects (lines 37-44,
\* 64-70) and write nothing back.
LayersAfterExport(history) == history

\* Lines 21-97: handleExport with exportAsGeoJSON and exportAsCSV. Reading
\* geometry.type of a null geometry throws at line 68, and nothing is saved.
handleExport ==
    /\ download' =
          IF Len(selectedQueries) = 0 THEN NoDownload
          ELSE IF exportFormat = "geojson"
          THEN [kind |-> "geojson",
                body |-> GeoJSONFeatures(QueriesToExport)]
          ELSE IF \/ GeoJSONFeatures(QueriesToExport) = <<>>
                  \/ \E i \in 1..Len(QueriesToExport) :
                        \E j \in 1..Len(QueriesToExport[i].data.features) :
                           QueriesToExport[i].data.features[j].geometry.type = "null"
          THEN NoDownload
          ELSE [kind |-> "csv",
                body |-> <<CsvContent(CsvRows(QueriesToExport))>>]
    /\ queryHistory' = LayersAfterExport(queryHistory)
    /\ Ran("handleExport", 0)
    /\ UNCHANGED <<viewState, queryResults, currentQueryName, currentLocation, nowMs,
                   pendingCenter, newestCenter, selectedQueries, exportFormat>>
    /\ UNCHANGED <<engineVars, chatVars>>

\* Lines 107-109.
selectAll ==
    /\ selectedQueries' = [i \in 1..Len(queryHistory) |-> queryHistory[i].id]
    /\ Ran("selectAll", 0)
    /\ download' = NoDownload
    /\ UNCHANGED <<queryHistory, viewState, queryResults, currentQueryName, currentLocation,
                   nowMs, pendingCenter, newestCenter, exportFormat>>
    /\ UNCHANGED <<engineVars, chatVars>>

\* Lines 111-113.
selectNone ==
    /\ selectedQueries' = <<>>
    /\ Ran("selectNone", 0)
    /\ download' = NoDownload
    /\ UNCHANGED <<queryHistory, viewState, queryResults, currentQueryName, currentLocation,
                   nowMs, pendingCenter, newestCenter, exportFormat>>
    /\ UNCHANGED <<engineVars, chatVars>>

\* Lines 99-105 and 250-266: the checkbox of a layer shown in the panel.
toggleQuerySelection(queryId) ==
    /\ selectedQueries' =
          IF \E k \in 1..Len(selectedQueries) : selectedQueries[k] = queryId
          THEN SelectSeq(selectedQueries, LAMBDA id : id # queryId)
          ELSE Append(selectedQueries, queryId)
    /\ Ran("toggleQuerySelection", 0)
    /\ download' = NoDownload
    /\ UNCHANGED <<queryHistory, viewState, queryResults, currentQueryName, currentLocation,
                   nowMs, pendingCenter, newestCenter, exportFormat>>
    /\ UNCHANGED <<engineVars, chatVars>>

\* Line 18: the format radio buttons.
setExportFormat(format) ==
    /\ exportFormat' = format
    /\ Ran("setExportFormat", 0)
    /\ download' = NoDownload
    /\ UNCHANGED <<queryHistory, viewState, queryResults, currentQueryName, currentLocation,
                   nowMs, pendingCenter, newestCenter, selectedQueries>>
    /\ UNCHANGED <<engineVars, chatVars>>

-----------------------------------------------------------------------------
(* Part III: text and patterns of components/ChatBox.tsx *)

\* A text is a sequence of characters, each a one-character string.
UpperCase == <<"A", "B", "C", "D", "E", "F", "G", "H", "I", "J", "K", "L", "M",
               "N", "O", "P", "Q", "R", "S", "T", "U", "V", "W", "X", "Y", "Z">>
LowerCase == <<"a", "b", "c", "d", "e", "f", "g", "h", "i", "j", "k", "l", "m",
               "n", "o", "p", "q", "r", "s", "t", "u", "v", "w", "x", "y", "z">>

CharsOf(seq) == {seq[i] : i \in 1..Len(seq)}

\* String.prototype.toLowerCase, one character.
Lower(c) ==
    IF c \in CharsOf(UpperCase)
    THEN LowerCase[CHOOSE i \in 1..Len(UpperCase) : UpperCase[i] = c]
    ELSE c

toLowerCase(s) == [i \in 1..Len(s) |-> Lower(s[i])]

\* The classes \s, \d and \w of a regular expression.
IsSpace(c) == c \in {" ", "\t", "\n"}
IsDigit(c) == c \in CharsOf(Digits)
IsWordChar(c) == Lower(c) \in CharsOf(LowerCase) \/ IsDigit(c) \/ c = "_"

\* The literal w (in lower case) stands at position i of s, letter case
\* ignored as under the flag i.
MatchesAt(s, i, w) ==
    /\ i >= 1
    /\ i + Len(w) - 1 <= Len(s)
    /\ \A k \in 1..Len(w) : Lower(s[i + k - 1]) = w[k]

\* String.prototype.includes.
includes(s, w) ==
    \E i \in 1..Len(s) :
        /\ i + Len(w) - 1 <= Len(s)
        /\ \A k \in 1..Len(w) : s[i + k - 1] = w[k]

\* The number of characters from position i on that satisfy a class.
SpaceRun(s, i) ==
    IF i > Len(s) THEN 0
    ELSE LET stop == {j \in i..Len(s) : ~IsSpace(s[j])}
         IN IF stop = {} THEN Len(s) - i + 1
            ELSE (CHOOSE j \in stop : \A k \in stop : j <= k) - i

\* String.prototype.trim.
trim(s) ==
    LET keep == {i \in 1..Len(s) : ~IsSpace(s[i])}
    IN IF keep = {} THEN <<>>
       ELSE SubSeq(s, CHOOSE i \in keep : \A k \in keep : i <= k,
                      CHOOSE i \in keep : \A k \in keep : i >= k)

\* The first entry of a sequence of positions that is not 0, or 0.
FirstFound(seq) ==
    LET hits == {i \in 1..Len(seq) : seq[i] # 0}
    IN IF hits = {} THEN 0 ELSE seq[CHOOSE i \in hits : \A k \in hits : i <= k]

\* The integers hi, hi - 1, ..., lo: the order in which a greedy quantifier
\* gives characters back.
Downto(hi, lo) == [i \in 1..(hi - lo + 1) |-> hi - i + 1]

\* Line 78: the alternatives center|go to|move|fly.
CenterVerbs ==
    << <<"c", "e", "n", "t", "e", "r">>, <<"g", "o", " ", "t", "o">>,
       <<"m", "o", "v", "e">>, <<"f", "l", "y">> >>

\* Line 78: the class [\w\s,] of the captured group.
IsPlaceChar(c) == IsWordChar(c) \/ IsSpace(c) \/ c = ","

\* Line 78: where group 1 starts when the part of the pattern after the verb,
\* \s+(?:map\s+)?(?:on|to)?\s*([\w\s,]+), is matched from position q; 0 when
\* it does not match. Every quantifier is greedy and gives back on failure.
PlaceStartFrom(s, q) ==
    LET GroupAt(d) == IF d <= Len(s) /\ IsPlaceChar(s[d]) THEN d ELSE 0
        AfterPrep(c) ==
            FirstFound([l \in 1..(SpaceRun(s, c) + 1) |->
                           GroupAt(Downto(c + SpaceRun(s, c), c)[l])])
        AfterMap(b) ==
            IF MatchesAt(s, b, <<"o", "n">>) \/ MatchesAt(s, b, <<"t", "o">>)
            THEN FirstFound(<<AfterPrep(b + 2), AfterPrep(b)>>)
            ELSE AfterPrep(b)
        AfterSpace(a) ==
            IF MatchesAt(s, a, <<"m", "a", "p">>) /\ SpaceRun(s, a + 3) >= 1
            THEN FirstFound([j \in 1..(SpaceRun(s, a + 3) + 1) |->
                                IF j <= SpaceRun(s, a + 3)
                                THEN AfterMap(Downto(a + 3 + SpaceRun(s, a + 3), a + 4)[j])
                                ELSE AfterMap(a)])
            ELSE AfterMap(a)
    IN IF SpaceRun(s, q) = 0 THEN 0
       ELSE FirstFound([k \in 1..SpaceRun(s, q) |->
                           AfterSpace(Downto(q + SpaceRun(s, q), q + 1)[k])])

\* Line 78: where group 1 starts when the pattern is matched at position p.
PlaceStartAt(s, p) ==
    FirstFound([v \in 1..Len(CenterVerbs) |->
                   IF MatchesAt(s, p, CenterVerbs[v])
                   THEN PlaceStartFrom(s, p + Len(CenterVerbs[v])) ELSE 0])

\* Line 78: queryText.match(...). The pattern is not anchored: the search
\* takes the leftmost position at which it matches. The result is the
\* position of the match (0: null) and group 1, the longest run of [\w\s,].
centerMatch(s) ==
    LET starts == {p \in 1..Len(s) : PlaceStartAt(s, p) # 0}
    IN IF starts = {} THEN [index |-> 0, group |-> <<>>]
       ELSE LET p == CHOOSE i \in starts : \A k \in starts : i <= k
                d == PlaceStartAt(s, p)
                stop == {j \in d..Len(s) : ~IsPlaceChar(s[j])}
                e == IF stop = {} THEN Len(s)
                     ELSE (CHOOSE j \in stop : \A k \in stop : j <= k) - 1
            IN [index |-> p, group |-> SubSeq(s, d, e)]

\* The texts a user submits.
CenterMapOnTartu ==
    <<"C", "e", "n", "t", "e", "r", " ", "m", "a", "p", " ", "o", "n", " ",
      "T", "a", "r", "t", "u">>

FlyToBuildingTypes ==
    <<"f", "l", "y", " ", "t", "o", " ", "b", "u", "i", "l", "d", "i", "n",
      "g", " ", "t", "y", "p", "e", "s">>

ShowBuildingsThenMoveToTartu ==
    <<"S", "h", "o", "w", " ", "b", "u", "i", "l", "d", "i", "n", "g", "s",
      " ", "t", "h", "e", "n", " ", "m", "o", "v", "e", " ", "t", "o", " ",
      "T", "a", "r", "t", "u">>

WhatTypesAreAvailable ==
    <<"W", "h", "a", "t", " ", "t", "y", "p", "e", "s", " ", "o", "f", " ",
      "b", "u", "i", "l", "d", "i", "n", "g", "s", " ", "a", "r", "e", " ",
      "a", "v", "a", "i", "l", "a", "b", "l", "e", "?">>

ShowMeBuildingsWithin5kmOfTallinn ==
    <<"S", "h", "o", "w", " ", "m", "e", " ", "b", "u", "i", "l", "d", "i",
      "n", "g", "s", " ", "w", "i", "t", "h", "i", "n", " ", "5", "k", "m",
      " ", "o", "f", " ", "T", "a", "l", "l", "i", "n", "n">>

FindRoadsNearTartu ==
    <<"F", "i", "n", "d", " ", "r", "o", "a", "d", "s", " ", "n", "e", "a",
      "r", " ", "T", "a", "r", "t", "u">>

Hello ==
    <<"h", "e", "l", "l", "o">>

-----------------------------------------------------------------------------
(* Part III: services/openaiService.ts *)

\* A JavaScript string is a tuple of its pieces; << >> stands for undefined
\* and for the empty string, which every test below treats alike.
Truthy(v) == v # << >>

\* A statement is kept as what it reads and how it filters: the dataset of
\* read_parquet, the arguments of ST_DWithin (empty: no such predicate) and
\* the LIMIT.
Statement(dataset, within, limit) == [dataset |-> dataset, within |-> within, limit |-> limit]

QueryIntent(dataType, location, radius, query, explanation) ==
    [dataType |-> dataType, location |-> location, radius |-> radius,
     query |-> query, explanation |-> explanation]

\* Lines 108-115, 122-129, 139-146 and 154-161: the fixed default intent.
DefaultIntent ==
    QueryIntent(<<"buildings">>, <<"Tartu">>, 10,
                <<Statement("buildings", <<"26.7251", "58.3776", "0.09">>, 1000)>>,
                <<"Showing buildings around Tartu as an example">>)

\* What a promise gives the task that awaits it.
Returned(v) == [kind |-> "return", value |-> v]
Thrown(message) == [kind |-> "throw", message |-> message]

\* The text of a response is a sequence of parts: a code fence (with its
\* language tag), prose without braces, or the text of one JSON value.
Fence(lang) == [kind |-> "fence", lang |-> lang]
Prose == [kind |-> "prose"]
JsonValue(type) == [kind |-> type]
JsonObject(dataType, location, radius, query, explanation) ==
    [kind |-> "object", dataType |-> dataType, location |-> location, radius |-> radius,
     query |-> query, explanation |-> explanation]

RoadsNearTallinn ==
    JsonObject(<<"roads">>, <<"Tallinn">>, 10,
               <<Statement("roads", <<"24.7536", "59.4369", "0.09">>, 1000)>>,
               <<"Find roads within 10km of Tallinn">>)

\* Objects that lack one of the three required members, or hold it empty.
NoDataType == [RoadsNearTallinn EXCEPT !.dataType = << >>]
NoQuery == [RoadsNearTallinn EXCEPT !.query = << >>]
NoExplanation == [RoadsNearTallinn EXCEPT !.explanation = << >>]

\* What the reasoning service can do with a call: there is no API key (no
\* call is made), the call is rejected, or it answers with a text.
NoKey == [kind |-> "noKey", content |-> <<>>]
Rejects == [kind |-> "rejects", content |-> <<>>]
Answers(content) == [kind |-> "text", content |-> content]

ServiceOutcomes ==
    {NoKey, Rejects,
     Answers(<<>>),
     Answers(<<RoadsNearTallinn>>),
     Answers(<<Fence("json"), RoadsNearTallinn, Fence("")>>),
     Answers(<<Fence(""), RoadsNearTallinn, Fence("")>>),
     Answers(<<Prose, RoadsNearTallinn, Prose>>),
     Answers(<<Prose>>),
     Answers(<<RoadsNearTallinn, Prose, RoadsNearTallinn>>),
     Answers(<<JsonValue("null")>>),
     Answers(<<JsonValue("number")>>),
     Answers(<<JsonValue("string")>>),
     Answers(<<JsonValue("array")>>),
     Answers(<<NoDataType>>),
     Answers(<<NoQuery>>),
     Answers(<<Prose, NoExplanation>>)}

\* Lines 89-94: the fences around the text are removed.
cleanContent(content) ==
    IF content # <<>> /\ content[1].kind = "fence"
    THEN LET rest == Tail(content)
         IN IF rest # <<>> /\ rest[Len(rest)].kind = "fence"
            THEN SubSeq(rest, 1, Len(rest) - 1) ELSE rest
    ELSE content

\* JSON.parse succeeds on a text that is one JSON value and nothing else.
JsonKinds == {"object", "array", "string", "number", "null"}
Parses(text) == Len(text) = 1 /\ text[1].kind \in JsonKinds

\* Line 104: the span from the first { to the last } of the text; << >> when
\* the text has no such span.
jsonMatch(text) ==
    LET objects == {i \in 1..Len(text) : text[i].kind = "object"}
    IN IF objects = {} THEN <<>>
       ELSE SubSeq(text, CHOOSE i \in objects : \A k \in objects : i <= k,
                         CHOOSE i \in objects : \A k \in objects : i >= k)

\* Lines 97-132: the value of parsed after the two attempts to parse.
ParsedOrFallback(text) ==
    IF Parses(text) THEN text[1]
    ELSE IF jsonMatch(text) = <<>> THEN [kind |-> "intent", intent |-> DefaultIntent]
    ELSE IF Parses(jsonMatch(text)) THEN jsonMatch(text)[1]
    ELSE [kind |-> "intent", intent |-> DefaultIntent]

\* The test of line 137 with the explanation forgotten.
MissingRequiredNoExplanation(parsed) ==
    IF parsed.kind = "intent" THEN FALSE
    ELSE IF parsed.kind = "object"
    THEN ~Truthy(parsed.dataType) \/ ~Truthy(parsed.query)
    ELSE TRUE

\* Line 137: !parsed.dataType || !parsed.query || !parsed.explanation. A
\* string, a number or an array has none of the members.
MissingRequired(parsed) ==
    IF parsed.kind = "intent" THEN FALSE
    ELSE IF parsed.kind = "object"
    THEN ~Truthy(parsed.dataType) \/ ~Truthy(parsed.query) \/ ~Truthy(parsed.explanation)
    ELSE TRUE

\* Line 149: parsed as QueryIntent.
AsQueryIntent(parsed) ==
    IF parsed.kind = "intent" THEN parsed.intent
    ELSE QueryIntent(parsed.dataType, parsed.location, parsed.radius,
                     parsed.query, parsed.explanation)

\* Lines 151-162: the catch block returns the default intent.
catchAnalysisError == Returned(DefaultIntent)

\* Lines 14-163. Reading a member of null at line 137 throws inside the try.
analyzeQueryWithGPT(service) ==
    IF service.kind = "noKey" THEN catchAnalysisError                 \* lines 20-22
    ELSE IF service.kind = "rejects" THEN catchAnalysisError          \* lines 78-80
    ELSE IF service.content = <<>> THEN catchAnalysisError            \* lines 82-84
    ELSE LET parsed == ParsedOrFallback(cleanContent(service.content))
         IN IF parsed.kind = "null" THEN catchAnalysisError
            ELSE IF MissingRequired(parsed) THEN Returned(DefaultIntent)
            ELSE Returned(AsQueryIntent(parsed))

\* Lines 165-187: generateQueryExplanation. The function makes its call
\* without looking at the API key; a failed call gives the count.
generateQueryExplanation(service, results) ==
    IF service.kind # "text" THEN <<"Found ">> \o toString(Len(results)) \o <<" features.">>
    ELSE IF service.content = <<>> THEN <<"Query executed successfully.">>
    ELSE <<"explanation">>

-----------------------------------------------------------------------------
(* Part III: convertToGeoJSON of components/ChatBox.tsx *)

RECURSIVE DigitsValue(_)
\* The value of a sequence of decimal digits.
DigitsValue(s) ==
    IF s = <<>> THEN 0
    ELSE 10 * DigitsValue(SubSeq(s, 1, Len(s) - 1))
         + (CHOOSE d \in 0..9 : Digits[d + 1] = s[Len(s)])

\* Number(text): white space around the text is ignored, the empty text
\* is 0, a text that is not a numeral is NaN.
Number(s) ==
    IF trim(s) = <<>> THEN 0
    ELSE IF \A i \in 1..Len(trim(s)) : IsDigit(trim(s)[i]) THEN DigitsValue(trim(s))
    ELSE NaN

RECURSIVE split(_, _)
\* String.prototype.split on a one-character separator.
split(s, sep) ==
    LET cuts == {i \in 1..Len(s) : s[i] = sep}
    IN IF cuts = {} THEN <<s>>
       ELSE LET i == CHOOSE c \in cuts : \A k \in cuts : c <= k
            IN <<SubSeq(s, 1, i - 1)>> \o split(SubSeq(s, i + 1, Len(s)), sep)

\* The keywords of lines 165, 174, 185 and 196.
POINT == <<"p", "o", "i", "n", "t">>
LINESTRING == <<"l", "i", "n", "e", "s", "t", "r", "i", "n", "g">>
POLYGON == <<"p", "o", "l", "y", "g", "o", "n">>
MULTIPOLYGON == <<"m", "u", "l", "t", "i">> \o POLYGON

\* The patterns of lines 165, 174, 185 and 196 matched at position p:
\* KEYWORD \s* n times "(" ([^)]+) n times ")". The result is the captured
\* text, or << >> when the pattern does not match at p. [^)]+ takes every
\* character up to the first ")", an opening parenthesis included.
WktGroupAt(wkt, keyword, n, p) ==
    IF ~MatchesAt(wkt, p, keyword) THEN <<>>
    ELSE LET open == p + Len(keyword) + SpaceRun(wkt, p + Len(keyword))
             from == open + n
             closing == {j \in from..Len(wkt) : wkt[j] = ")"}
             to == IF closing = {} THEN 0
                   ELSE (CHOOSE j \in closing : \A k \in closing : j <= k) - 1
         IN IF /\ \A k \in 0..(n - 1) : open + k <= Len(wkt) /\ wkt[open + k] = "("
               /\ to >= from
               /\ \A k \in 1..n : to + k <= Len(wkt) /\ wkt[to + k] = ")"
            THEN SubSeq(wkt, from, to)
            ELSE <<>>

\* wkt.match(pattern)[1]: the patterns are not anchored, the leftmost
\* position that matches is taken; << >> for null.
WktMatch(wkt, keyword, n) ==
    LET starts == {p \in 1..Len(wkt) : MatchesAt(wkt, p, keyword)
                                       /\ WktGroupAt(wkt, keyword, n, p) # <<>>}
    IN IF starts = {} THEN <<>>
       ELSE WktGroupAt(wkt, keyword, n, CHOOSE p \in starts : \A k \in starts : p <= k)

\* Lines 167: pointMatch[1].split(' ').map(Number).
PointCoords(text) ==
    LET parts == split(text, " ")
    IN [i \in 1..Len(parts) |-> Number(parts[i])]

\* Lines 176-178, 187-189, 198-200:
\* text.split(',').map(c => c.trim().split(' ').map(Number)).
PairCoords(text) ==
    LET parts == split(text, ",")
    IN [i \in 1..Len(parts) |-> PointCoords(trim(parts[i]))]

\* Lines 158-209: the geometry read from row.geometry_wkt; the patterns are
\* tried in the order POINT, LINESTRING, POLYGON, MULTIPOLYGON.
WktGeometry(wkt) ==
    LET pointMatch == WktMatch(wkt, POINT, 1)
        lineMatch == WktMatch(wkt, LINESTRING, 1)
        polygonMatch == WktMatch(wkt, POLYGON, 2)
        multiPolygonMatch == WktMatch(wkt, MULTIPOLYGON, 3)
    IN IF ~Truthy(wkt) THEN NullGeometry
       ELSE IF pointMatch # <<>>
       THEN [type |-> "Point", coordinates |-> PointCoords(pointMatch)]
       ELSE IF lineMatch # <<>>
       THEN [type |-> "LineString", coordinates |-> PairCoords(lineMatch)]
       ELSE IF polygonMatch # <<>>
       THEN [type |-> "Polygon", coordinates |-> <<PairCoords(polygonMatch)>>]
       ELSE IF multiPolygonMatch # <<>>
       THEN [type |-> "Polygon", coordinates |-> <<PairCoords(multiPolygonMatch)>>]
       ELSE NullGeometry

\* The fallback of lines 212-230 without its last resort.
FallbackGeometryNoDefault(row) ==
    IF row.lon # 0 /\ row.lat # 0
    THEN [type |-> "Point", coordinates |-> <<row.lon, row.lat>>]
    ELSE IF row.longitude # 0 /\ row.latitude # 0
    THEN [type |-> "Point", coordinates |-> <<row.longitude, row.latitude>>]
    ELSE NullGeometry

\* Lines 212-230: the geometry of a row without a WKT geometry. A member
\* that is absent, null or 0 fails the tests of lines 213 and 218.
FallbackGeometry(row) ==
    IF row.lon # 0 /\ row.lat # 0
    THEN [type |-> "Point", coordinates |-> <<row.lon, row.lat>>]
    ELSE IF row.longitude # 0 /\ row.latitude # 0
    THEN [type |-> "Point", coordinates |-> <<row.longitude, row.latitude>>]
    ELSE [type |-> "Point", coordinates |-> <<0, 0>>]

\* Lines 154-247: the feature made from the row at position index (from 0).
\* Of the members of a row only name passes the filter of lines 237-239.
RowFeature(row, index) ==
    LET geometry == WktGeometry(row.geometry_wkt)
    IN [type |-> "Feature", id |-> index,
        geometry |-> IF geometry # NullGeometry THEN geometry ELSE FallbackGeometry(row),
        properties |-> [name |-> row.name]]

\* Lines 149-250.
convertToGeoJSON(data) ==
    [type |-> "FeatureCollection",
     features |-> [i \in 1..Len(data) |-> RowFeature(data[i], i - 1)]]

\* Number.prototype.toString and the text DuckDB's ST_AsText writes.
PairText(pair) == toString(pair[1]) \o <<" ">> \o toString(pair[2])

RECURSIVE PairsText(_)
PairsText(pairs) ==
    IF Len(pairs) = 1 THEN PairText(pairs[1])
    ELSE PairText(pairs[1]) \o <<",", " ">> \o PairsText(Tail(pairs))

RECURSIVE RingsText(_)
RingsText(rings) ==
    IF Len(rings) = 1 THEN <<"(">> \o PairsText(rings[1]) \o <<")">>
    ELSE <<"(">> \o PairsText(rings[1]) \o <<")", ",", " ">> \o RingsText(Tail(rings))

\* ST_AsText(geometry): the text of a shape with the given rings (a point
\* and a line have one "ring", their positions).
ST_AsText(shape, rings) ==
    CASE shape = "POINT" -> <<"P", "O", "I", "N", "T", " ", "(">> \o PairsText(rings[1]) \o <<")">>
      [] shape = "LINESTRING" ->
            <<"L", "I", "N", "E", "S", "T", "R", "I", "N", "G", " ", "(">>
            \o PairsText(rings[1]) \o <<")">>
      [] shape = "POLYGON" ->
            <<"P", "O", "L", "Y", "G", "O", "N", " ", "(">> \o RingsText(rings) \o <<")">>
      [] shape = "MULTIPOLYGON" ->
            <<"M", "U", "L", "T", "I", "P", "O", "L", "Y", "G", "O", "N", " ", "(", "(">>
            \o RingsText(rings) \o <<")", ")">>

\* A row of a result: its geometry column as a shape and its rings (shape
\* "NONE": the row has no geometry), the text ST_AsText made of it, and the
\* other members convertToGeoJSON reads.
Row(shape, rings, lon, lat, longitude, latitude, name) ==
    [geometry |-> [shape |-> shape, rings |-> rings],
     geometry_wkt |-> IF shape = "NONE" THEN <<>> ELSE ST_AsText(shape, rings),
     lon |-> lon, lat |-> lat, longitude |-> longitude, latitude |-> latitude,
     name |-> name]

Triangle == << <<247, 594>>, <<250, 595>>, <<252, 593>>, <<247, 594>> >>
Hole == << <<249, 594>>, <<250, 594>>, <<250, 595>>, <<249, 594>> >>

PointRow == Row("POINT", << <<PointFeature.geometry.coordinates>> >>, 0, 0, 0, 0, "kiosk")
LineRow == Row("LINESTRING", <<LineFeature.geometry.coordinates>>, 0, 0, 0, 0, "road")
PolygonRow == Row("POLYGON", <<Triangle>>, 0, 0, 0, 0, "park")
HoleRow == Row("POLYGON", <<Triangle, Hole>>, 0, 0, 0, 0, "yard")
MultiPolygonRow == Row("MULTIPOLYGON", <<Triangle>>, 0, 0, 0, 0, "campus")
LonLatRow == Row("NONE", <<>>, 267, 583, 0, 0, "stop")
LongitudeLatitudeRow == Row("NONE", <<>>, 0, 0, 247, 594, "mast")
BareRow == Row("NONE", <<>>, 0, 0, 0, 0, "note")

-----------------------------------------------------------------------------
(* Part III: handleQuery of components/ChatBox.tsx *)

NoIntent == QueryIntent(<<>>, <<>>, 0, <<>>, <<>>)

\* Lines 20-27: the message the chat opens with (its text cut short).
Welcome == [text |-> <<"Hi! I'm your AI-powered geospatial assistant for Estonia.">>,
            isUser |-> FALSE]

InitChat ==
    /\ loading = FALSE
    /\ messages = <<Welcome>>
    /\ handleQueryPc = "idle"
    /\ queryText = <<>>
    /\ queryIntent = NoIntent
    /\ result = <<>>
    /\ submitted = <<>>
    /\ serviceCalls = 0
    /\ executed = <<>>
    /\ pipeline = <<>>
    /\ submits = 0

\* Lines 41-49: the message addMessage(text, false) appends. The id and the
\* timestamp of a message are left out.
Said(text) == [text |-> text, isUser |-> FALSE]

ErrorText == <<"Error: ">>

\* Lines 134-135.
ErrorMessage(message) == Said(ErrorText \o message \o <<". Please try again.">>)

\* Line 130.
NoneFoundMessage(intent) ==
    Said(<<"No ">> \o intent.dataType \o <<" found">>
         \o (IF Truthy(intent.location)
             THEN <<" within ">> \o toString(intent.radius) \o <<"km of ">> \o intent.location
             ELSE <<>>)
         \o <<". Try a different search term or location.">>)

\* Line 127.
LayerLabel(intent) ==
    IF Truthy(intent.location)
    THEN intent.dataType \o <<" around ">> \o intent.location
    ELSE intent.dataType

\* What the engine does with a statement: it gives rows or fails with an
\* Error carrying a message.
GivesRows(rows) == [kind |-> "rows", rows |-> rows, message |-> <<>>]
Fails(message) == [kind |-> "fails", rows |-> <<>>, message |-> message]

\* A catch block that swallows the error and returns no rows.
queryDuckDBSwallowsError(engineOutcome) ==
    IF engineOutcome.kind = "fails" THEN Returned(<<>>)
    ELSE Returned(engineOutcome.rows)

\* services/duckdbService.ts lines 167-202 as handleQuery sees it: the rows,
\* or the error the catch block of lines 198-201 throws again.
queryDuckDB(engineOutcome) ==
    IF engineOutcome.kind = "fails" THEN Thrown(engineOutcome.message)
    ELSE Returned(engineOutcome.rows)

\* The statement of the default intent, whatever the resolver returned.
DefaultStatement(intent) == DefaultIntent.query

\* Line 105: the statement handed to queryDuckDB.
StatementToRun(intent) == intent.query

\* The test of line 107 without the length.
RowsFoundAlways(rows) == TRUE

\* Line 107: result && result.length > 0.
RowsFound(rows) == Len(rows) > 0

\* JSON.stringify writes NaN as null; JSON.parse reads it back as null.
JsonNumber(x) == IF x = NaN THEN JsonNull ELSE x

JsonPosition(pair) == [k \in 1..Len(pair) |-> JsonNumber(pair[k])]

\* Line 128 and Map.tsx line 107: the features after JSON.stringify and
\* JSON.parse.
JsonFeature(f) ==
    LET c == f.geometry.coordinates
    IN [f EXCEPT !.geometry.coordinates =
           CASE f.geometry.type = "Point" -> JsonPosition(c)
             [] f.geometry.type = "LineString" -> [i \in 1..Len(c) |-> JsonPosition(c[i])]
             [] f.geometry.type = "Polygon" ->
                   [r \in 1..Len(c) |-> [i \in 1..Len(c[r]) |-> JsonPosition(c[r][i])]]
             [] OTHER -> c]

JsonRoundTrip(geoJSON) ==
    ParsedInput(TRUE, TRUE, [i \in 1..Len(geoJSON.features) |-> JsonFeature(geoJSON.features[i])])

\* A test of line 79 that never takes the centre branch.
IsCenterDirectiveNever(match) == FALSE

\* Line 79: centerMatch && centerMatch[1].
IsCenterDirective(match) == match.index # 0 /\ match.group # <<>>

\* Lines 73-92: handleQuery up to its first await. apiKey tells whether
\* VITE_GEMINI_API_KEY is set (openaiService.ts lines 17-22); posted is the
\* message list as the caller left it.
handleQuery(posted, text, apiKey) ==
    /\ submits' = submits + 1
    /\ queryText' = text
    /\ LET match == centerMatch(text)
           place == trim(match.group)
       IN
       IF IsCenterDirective(match)
       THEN \* lines 79-85 and 136-138
            /\ messages' = Append(posted,
                   Said(<<"Centering map on ">> \o place \o <<"...">>))
            /\ handleCenterMap(place)
            /\ pipeline' = <<"center">>
            /\ loading' = FALSE
            /\ UNCHANGED <<handleQueryPc, serviceCalls>>
       ELSE \* lines 88-92
            /\ messages' = Append(posted, Said(<<"Processing your query with Gemini...">>))
            /\ pipeline' = <<"resolve">>
            /\ loading' = TRUE
            /\ handleQueryPc' = IF apiKey THEN "analyze" ELSE "analyzeNoKey"
            /\ serviceCalls' = IF apiKey THEN serviceCalls + 1 ELSE serviceCalls
            /\ UNCHANGED <<pendingCenter, newestCenter, viewState, currentLocation>>
    /\ Ran("handleQuery", 0)
    /\ download' = NoDownload
    /\ UNCHANGED <<queryIntent, result, submitted, executed>>
    /\ UNCHANGED <<queryHistory, queryResults, currentQueryName, nowMs,
                   selectedQueries, exportFormat>>
    /\ UNCHANGED engineVars

\* A test that lets a submission through while loading is set.
AcceptsInputAlways == TRUE

\* Lines 142 and 323: while loading is set handleSubmit returns at once and
\* the quick-action buttons are disabled.
AcceptsInput == ~loading

\* Lines 41-49: the message addMessage(text, true) appends.
SaidByUser(text) == [text |-> text, isUser |-> TRUE]

\* Lines 67-69 and 141-146: the two callers of handleQuery. The input box
\* (box) passes its trimmed text unless that is empty; a quick-action button
\* posts its text as the user's message and passes it as it is.
callHandleQuery(box, text, apiKey) ==
    /\ AcceptsInput
    /\ box => trim(text) # <<>>
    /\ handleQuery(IF box THEN messages ELSE Append(messages, SaidByUser(text)),
                   IF box THEN trim(text) ELSE text, apiKey)

\* Lines 141-146.
handleSubmit(input, apiKey) == callHandleQuery(TRUE, input, apiKey)

\* Lines 51-60: two of the quick actions, 'Roads' and 'Center Tartu'.
DisplayRoadsInEstonia ==
    <<"D", "i", "s", "p", "l", "a", "y", " ", "r", "o", "a", "d", "s", " ",
      "i", "n", " ", "E", "s", "t", "o", "n", "i", "a">>

RoadsAction == [action |-> "query", query |-> DisplayRoadsInEstonia, place |-> <<>>]
CenterTartuAction == [action |-> "center", query |-> <<>>, place |-> <<"T", "a", "r", "t", "u">>]
quickActions == {RoadsAction, CenterTartuAction}

\* Lines 64-66: handleQuickAction for an action that centres the map.
handleQuickActionCenter(action) ==
    /\ AcceptsInput
    /\ action.action = "center"
    /\ messages' = Append(messages, SaidByUser(<<"Center map on ">> \o action.place))
    /\ handleCenterMap(action.place)
    /\ Ran("handleQuickAction", 0)
    /\ download' = NoDownload
    /\ UNCHANGED <<loading, handleQueryPc, queryText, queryIntent, result,
                   submitted, serviceCalls, executed, pipeline, submits>>
    /\ UNCHANGED <<queryHistory, queryResults, currentQueryName, nowMs,
                   selectedQueries, exportFormat>>
    /\ UNCHANGED engineVars

\* Lines 92-105: analyzeQueryWithGPT has settled.
AnalysisReturns(service) ==
    /\ handleQueryPc \in {"analyze", "analyzeNoKey"}
    /\ (handleQueryPc = "analyzeNoKey") <=> (service.kind = "noKey")
    /\ LET r == analyzeQueryWithGPT(service)
       IN IF r.kind = "throw"
          THEN \* lines 94-99
               /\ messages' = Append(messages, Said(<<"I couldn't understand that.">>))
               /\ pipeline' = Append(pipeline, "not understood")
               /\ loading' = FALSE
               /\ handleQueryPc' = "idle"
               /\ UNCHANGED <<queryIntent, executed>>
          ELSE /\ queryIntent' = r.value
               /\ messages' = messages \o <<Said(<<"Analysis: ">> \o r.value.explanation),
                                            Said(<<"Running query...">>)>>
               /\ executed' = Append(executed, StatementToRun(r.value))
               /\ pipeline' = pipeline \o <<"resolved", "execute">>
               /\ handleQueryPc' = "query"
               /\ UNCHANGED loading
    /\ Ran("AnalysisReturns", 0)
    /\ download' = NoDownload
    /\ UNCHANGED <<queryText, result, submitted, serviceCalls, submits>>
    /\ UNCHANGED <<queryHistory, viewState, queryResults, currentQueryName, currentLocation,
                   nowMs, pendingCenter, newestCenter, selectedQueries, exportFormat>>
    /\ UNCHANGED engineVars

\* A handler that returns without clearing the loading flag.
finallyBlockKeepsLoading ==
    /\ loading' = loading
    /\ handleQueryPc' = "idle"

\* Lines 136-138: the finally block of handleQuery, after which the handler
\* has returned.
finallyBlock ==
    /\ loading' = FALSE
    /\ handleQueryPc' = "idle"

\* Lines 105-112 and 129-138: queryDuckDB has settled.
QueryReturns(engineOutcome) ==
    /\ handleQueryPc = "query"
    /\ LET r == queryDuckDB(engineOutcome)
       IN IF r.kind = "throw"
          THEN \* lines 132-138
               /\ messages' = Append(messages, ErrorMessage(r.message))
               /\ pipeline' = Append(pipeline, "error")
               /\ finallyBlock
               /\ UNCHANGED <<result, serviceCalls>>
          ELSE IF RowsFound(r.value)
          THEN \* lines 107-112: generateQueryExplanation is called
               /\ result' = r.value
               /\ serviceCalls' = serviceCalls + 1
               /\ pipeline' = Append(pipeline, "rows")
               /\ handleQueryPc' = "explain"
               /\ UNCHANGED <<messages, loading>>
          ELSE \* lines 129-131 and 136-138
               /\ messages' = Append(messages, NoneFoundMessage(queryIntent))
               /\ pipeline' = Append(pipeline, "no rows")
               /\ finallyBlock
               /\ UNCHANGED <<result, serviceCalls>>
    /\ Ran("QueryReturns", 0)
    /\ download' = NoDownload
    /\ UNCHANGED <<queryText, queryIntent, submitted, executed, submits>>
    /\ UNCHANGED <<queryHistory, viewState, queryResults, currentQueryName, currentLocation,
                   nowMs, pendingCenter, newestCenter, selectedQueries, exportFormat>>
    /\ UNCHANGED engineVars

\* Lines 112-128 and 136-138: generateQueryExplanation has settled; the rows
\* are converted and handed to onQueryGenerated, which is Map.tsx's
\* handleQueryGenerated and runs to its end before handleQuery goes on.
ExplanationReturns(service, t) ==
    /\ handleQueryPc = "explain"
    /\ messages' = Append(messages, Said(generateQueryExplanation(service, result)))
    /\ submitted' = Append(submitted, queryText)
    /\ LET geoJSON == JsonRoundTrip(convertToGeoJSON(result))
       IN /\ applyQueryResult(geoJSON, LayerLabel(queryIntent), t)
          /\ pipeline' = pipeline \o <<"convert">>
                         \o (IF HasFeatures(geoJSON) THEN <<"append", "fit">> ELSE <<>>)
          /\ Ran("handleQueryGenerated", Len(geoJSON.features))
    /\ finallyBlock
    /\ download' = NoDownload
    /\ UNCHANGED <<queryText, queryIntent, result, serviceCalls, executed, submits>>
    /\ UNCHANGED <<currentLocation, pendingCenter, newestCenter, selectedQueries, exportFormat>>
    /\ UNCHANGED engineVars

-----------------------------------------------------------------------------
(* Part IV: the rule-based handleQuery of src/unnamed/part_001 *)

\* The first entry of a sequence of groups that is not empty, or << >>.
FirstGroup(seq) ==
    LET hits == {i \in 1..Len(seq) : seq[i] # <<>>}
    IN IF hits = {} THEN <<>> ELSE seq[CHOOSE i \in hits : \A k \in hits : i <= k]

\* Lines 102-103: the class [a-zA-Z...\-\s] of the location group. The texts
\* of the model are written without the Estonian letters of the class.
IsLocationChar(c) == Lower(c) \in CharsOf(LowerCase) \/ c = "-" \/ IsSpace(c)

\* Line 102: the alternatives in|around|near|at|within|close to.
LocationWords ==
    << <<"i", "n">>,
       <<"a", "r", "o", "u", "n", "d">>,
       <<"n", "e", "a", "r">>,
       <<"a", "t">>,
       <<"w", "i", "t", "h", "i", "n">>,
       <<"c", "l", "o", "s", "e", " ", "t", "o">> >>

\* Line 103: the nouns building, road, area, zone, park, school, each with
\* an optional s that plays no part in the group.
DatasetNouns ==
    << <<"b", "u", "i", "l", "d", "i", "n", "g">>,
       <<"r", "o", "a", "d">>,
       <<"a", "r", "e", "a">>,
       <<"z", "o", "n", "e">>,
       <<"p", "a", "r", "k">>,
       <<"s", "c", "h", "o", "o", "l">> >>

\* Line 102: the group of ([...]+?)(?:\s|$|,|\.) matched from position d:
\* the shortest run of the class that is followed by white space, the end of
\* the text, a comma or a full stop; << >> when there is none.
LocationBefore(s, d) ==
    LET ends == {e \in d..Len(s) :
                    /\ \A j \in d..e : IsLocationChar(s[j])
                    /\ (e = Len(s) \/ IsSpace(s[e + 1]) \/ s[e + 1] \in {",", "."})}
    IN IF ends = {} THEN <<>>
       ELSE SubSeq(s, d, CHOOSE e \in ends : \A k \in ends : e <= k)

\* Line 102: group 1 when the first pattern is matched at position p.
LocationPattern1At(s, p) ==
    FirstGroup([w \in 1..Len(LocationWords) |->
                   IF MatchesAt(s, p, LocationWords[w])
                   THEN LET q == p + Len(LocationWords[w])
                        IN FirstGroup([k \in 1..SpaceRun(s, q) |->
                               LocationBefore(s, Downto(q + SpaceRun(s, q), q + 1)[k])])
                   ELSE <<>>])

\* Line 103: group 1 when the second pattern is matched at position p: the
\* shortest run of the class that white space and a dataset noun follow.
LocationPattern2At(s, p) ==
    LET ends == {e \in p..Len(s) :
                    /\ \A j \in p..e : IsLocationChar(s[j])
                    /\ SpaceRun(s, e + 1) >= 1
                    /\ \E n \in 1..Len(DatasetNouns) :
                          MatchesAt(s, e + 1 + SpaceRun(s, e + 1), DatasetNouns[n])}
    IN IF ends = {} THEN <<>>
       ELSE SubSeq(s, p, CHOOSE e \in ends : \A k \in ends : e <= k)

\* Lines 101-107: queryText.match(pattern) for the two patterns, group 1 of
\* the leftmost match.
LocationMatch1(s) ==
    LET starts == {p \in 1..Len(s) : LocationPattern1At(s, p) # <<>>}
    IN IF starts = {} THEN <<>>
       ELSE LocationPattern1At(s, CHOOSE p \in starts : \A k \in starts : p <= k)

LocationMatch2(s) ==
    LET starts == {p \in 1..Len(s) : LocationPattern2At(s, p) # <<>>}
    IN IF starts = {} THEN <<>>
       ELSE LocationPattern2At(s, CHOOSE p \in starts : \A k \in starts : p <= k)

\* Lines 97 and 106-112: the location is the group of the first pattern that
\* matches, trimmed and in lower case.
ExtractLocation(s) ==
    IF LocationMatch1(s) # <<>> THEN toLowerCase(trim(LocationMatch1(s)))
    ELSE IF LocationMatch2(s) # <<>> THEN toLowerCase(trim(LocationMatch2(s)))
    ELSE <<>>

\* The number of digits from position i on.
DigitRun(s, i) ==
    IF i > Len(s) THEN 0
    ELSE LET stop == {j \in i..Len(s) : ~IsDigit(s[j])}
         IN IF stop = {} THEN Len(s) - i + 1
            ELSE (CHOOSE j \in stop : \A k \in stop : j <= k) - i

\* Line 115: group 1 of /(\d+)\s*(?:km|kilometer|kilometers)/i, the digits
\* of the leftmost match; << >> when the pattern does not match.
radiusMatch(s) ==
    LET starts == {p \in 1..Len(s) :
                      /\ IsDigit(s[p])
                      /\ LET u == p + DigitRun(s, p) + SpaceRun(s, p + DigitRun(s, p))
                         IN \/ MatchesAt(s, u, <<"k", "m">>)
                            \/ MatchesAt(s, u, <<"k", "i", "l", "o", "m", "e", "t", "e", "r">>)}
    IN IF starts = {} THEN <<>>
       ELSE LET p == CHOOSE i \in starts : \A k \in starts : i <= k
            IN SubSeq(s, p, p + DigitRun(s, p) - 1)

\* Lines 98 and 115-118: the radius, 10 unless the text gives one.
ExtractRadius(s) == IF radiusMatch(s) # <<>> THEN DigitsValue(radiusMatch(s)) ELSE 10

\* services/duckdbService.ts lines 223-291: the keywords of getSampleQueries
\* in their order, with the dataset each statement reads and its LIMIT.
SampleQueries ==
    << [keyword |-> <<"b", "u", "i", "l", "d", "i", "n", "g", "s">>, dataset |-> "buildings", limit |-> 1000],
       [keyword |-> <<"c", "o", "m", "m", "e", "r", "c", "i", "a", "l">>, dataset |-> "buildings", limit |-> 1000],
       [keyword |-> <<"r", "e", "s", "i", "d", "e", "n", "t", "i", "a", "l">>, dataset |-> "buildings", limit |-> 1000],
       [keyword |-> <<"r", "o", "a", "d", "s">>, dataset |-> "roads", limit |-> 1000],
       [keyword |-> <<"h", "i", "g", "h", "w", "a", "y">>, dataset |-> "roads", limit |-> 1000],
       [keyword |-> <<"l", "a", "n", "d", "u", "s", "e">>, dataset |-> "landuse", limit |-> 1000],
       [keyword |-> <<"r", "e", "s", "i", "d", "e", "n", "t", "i", "a", "l", "-", "a", "r", "e", "a", "s">>, dataset |-> "landuse", limit |-> 1000],
       [keyword |-> <<"c", "o", "m", "m", "e", "r", "c", "i", "a", "l", "-", "z", "o", "n", "e", "s">>, dataset |-> "landuse", limit |-> 1000],
       [keyword |-> <<"p", "a", "r", "k", "s">>, dataset |-> "landuse", limit |-> 1000],
       [keyword |-> <<"i", "n", "d", "u", "s", "t", "r", "i", "a", "l">>, dataset |-> "landuse", limit |-> 1000],
       [keyword |-> <<"s", "c", "h", "o", "o", "l", "s">>, dataset |-> "buildings", limit |-> 1000],
       [keyword |-> <<"h", "o", "s", "p", "i", "t", "a", "l", "s">>, dataset |-> "buildings", limit |-> 1000],
       [keyword |-> <<"s", "c", "h", "e", "m", "a">>, dataset |-> "buildings", limit |-> 0] >>

\* Lines 151-153: sampleQueries.find(sq => lowerInput.includes(sq.keyword)),
\* as a position; 0 when none is found.
MatchedSample(lowerInput) ==
    LET hits == {i \in 1..Len(SampleQueries) : includes(lowerInput, SampleQueries[i].keyword)}
    IN IF hits = {} THEN 0 ELSE CHOOSE i \in hits : \A k \in hits : i <= k

\* Lines 121-170: the dataset the statement reads.
ClassifyDataset(lowerInput) ==
    IF includes(lowerInput, <<"b", "u", "i", "l", "d", "i", "n", "g">>) THEN "buildings"
    ELSE IF \/ includes(lowerInput, <<"r", "o", "a", "d">>)
            \/ includes(lowerInput, <<"h", "i", "g", "h", "w", "a", "y">>)
            \/ includes(lowerInput, <<"s", "t", "r", "e", "e", "t">>)
    THEN "roads"
    ELSE IF \/ includes(lowerInput, <<"l", "a", "n", "d", "u", "s", "e">>)
            \/ includes(lowerInput, <<"a", "r", "e", "a">>)
            \/ includes(lowerInput, <<"z", "o", "n", "e">>)
            \/ includes(lowerInput, <<"p", "a", "r", "k">>)
            \/ includes(lowerInput, <<"r", "e", "s", "i", "d", "e", "n", "t", "i", "a", "l">>)
            \/ includes(lowerInput, <<"c", "o", "m", "m", "e", "r", "c", "i", "a", "l">>)
    THEN "landuse"
    ELSE IF MatchedSample(lowerInput) # 0 THEN SampleQueries[MatchedSample(lowerInput)].dataset
    ELSE "buildings"

\* Lines 121-170: a predefined statement is used when none of the keywords
\* of lines 121, 130 and 139 is in the text and a sample keyword is.
UsesSample(lowerInput) ==
    /\ ~includes(lowerInput, <<"b", "u", "i", "l", "d", "i", "n", "g">>)
    /\ ~includes(lowerInput, <<"r", "o", "a", "d">>)
    /\ ~includes(lowerInput, <<"h", "i", "g", "h", "w", "a", "y">>)
    /\ ~includes(lowerInput, <<"s", "t", "r", "e", "e", "t">>)
    /\ ~includes(lowerInput, <<"l", "a", "n", "d", "u", "s", "e">>)
    /\ ~includes(lowerInput, <<"a", "r", "e", "a">>)
    /\ ~includes(lowerInput, <<"z", "o", "n", "e">>)
    /\ ~includes(lowerInput, <<"p", "a", "r", "k">>)
    /\ ~includes(lowerInput, <<"r", "e", "s", "i", "d", "e", "n", "t", "i", "a", "l">>)
    /\ ~includes(lowerInput, <<"c", "o", "m", "m", "e", "r", "c", "i", "a", "l">>)
    /\ MatchedSample(lowerInput) # 0

\* Lines 122, 131, 140, 156 and 160: queryType.
QueryType(lowerInput) ==
    IF UsesSample(lowerInput) THEN SampleQueries[MatchedSample(lowerInput)].keyword
    ELSE <<ClassifyDataset(lowerInput)>>

\* The cities of the coordinate table (services/openaiService.ts lines
\* 39-40), in lower case, with their centroids.
KnownCities ==
    [name : {<<"t", "a", "l", "l", "i", "n", "n">>}, lon : {"24.7536"}, lat : {"59.4369"}]
    \cup [name : {<<"t", "a", "r", "t", "u">>}, lon : {"26.7251"}, lat : {"58.3776"}]

\* generateLocationQuery(dataset, location, radius): the statement reads the
\* dataset with LIMIT 1000 and, when the location is a known city, keeps the
\* rows within radius / 111 degrees of its centroid.
generateLocationQuery(dataset, location, radius) ==
    IF \E city \in KnownCities : city.name = location
    THEN LET city == CHOOSE c \in KnownCities : c.name = location
         IN Statement(dataset, <<city.lon, city.lat>> \o toString(radius) \o <<"/111">>, 1000)
    ELSE Statement(dataset, <<>>, 1000)

\* Lines 121-166: the statement.
RuleStatement(lowerInput, location, radius) ==
    IF UsesSample(lowerInput)
    THEN Statement(SampleQueries[MatchedSample(lowerInput)].dataset, <<>>,
                   SampleQueries[MatchedSample(lowerInput)].limit)
    ELSE IF location # <<>>
    THEN generateLocationQuery(ClassifyDataset(lowerInput), location, radius)
    ELSE Statement(ClassifyDataset(lowerInput), <<>>, 1000)

\* Lines 93-170: the intent the rules make of a text.
RuleIntent(text) ==
    QueryIntent(QueryType(toLowerCase(text)), ExtractLocation(text), ExtractRadius(text),
                <<RuleStatement(toLowerCase(text), ExtractLocation(text), ExtractRadius(text))>>,
                <<>>)

\* Line 87: the text, in lower case, contains available, types or what.
IsExplainRequest(text) ==
    \/ includes(toLowerCase(text), <<"a", "v", "a", "i", "l", "a", "b", "l", "e">>)
    \/ includes(toLowerCase(text), <<"t", "y", "p", "e", "s">>)
    \/ includes(toLowerCase(text), <<"w", "h", "a", "t">>)

\* Lines 124, 133, 142, 157 and 161: the message that announces the search.
SearchingMessage(intent, lowerInput) ==
    Said(IF UsesSample(lowerInput)
         THEN <<"Executing predefined query for ">> \o intent.dataType \o <<"...">>
         ELSE IF intent.location # <<>>
         THEN <<"Searching for ", ClassifyDataset(lowerInput), " within ">>
              \o toString(intent.radius) \o <<"km of ">> \o intent.location \o <<"...">>
         ELSE <<"Searching for all ", ClassifyDataset(lowerInput), " in Estonia...">>)

\* Lines 72-173: the older handleQuery up to its await of queryDuckDB.
handleQueryByRules(text) ==
    /\ submits' = submits + 1
    /\ queryText' = text
    /\ LET match == centerMatch(text)
           place == trim(match.group)
           intent == RuleIntent(text)
       IN
       IF IsCenterDirective(match)
       THEN \* lines 78-84
            /\ messages' = Append(messages,
                   Said(<<"Centering map on ">> \o place \o <<"...">>))
            /\ handleCenterMap(place)
            /\ pipeline' = <<"center">>
            /\ loading' = FALSE
            /\ UNCHANGED <<handleQueryPc, queryIntent, executed>>
       ELSE IF IsExplainRequest(text)
       THEN \* lines 87-91
            /\ messages' = Append(messages,
                   Said(<<"Here are the available data types and sample queries:">>))
            /\ pipeline' = <<"explain">>
            /\ loading' = FALSE
            /\ UNCHANGED <<handleQueryPc, queryIntent, executed>>
            /\ UNCHANGED <<pendingCenter, newestCenter, viewState, currentLocation>>
       ELSE \* lines 94-173
            /\ queryIntent' = intent
            /\ messages' = Append(messages, SearchingMessage(intent, toLowerCase(text)))
            /\ executed' = Append(executed, intent.query)
            /\ pipeline' = <<"resolve", "resolved", "execute">>
            /\ loading' = TRUE
            /\ handleQueryPc' = "rulesQuery"
            /\ UNCHANGED <<pendingCenter, newestCenter, viewState, currentLocation>>
    /\ Ran("handleQueryByRules", 0)
    /\ download' = NoDownload
    /\ UNCHANGED <<result, submitted, serviceCalls>>
    /\ UNCHANGED <<queryHistory, queryResults, currentQueryName, nowMs,
                   selectedQueries, exportFormat>>
    /\ UNCHANGED engineVars

\* Lines 213-218.
handleSubmitByRules(input) ==
    /\ trim(input) # <<>>
    /\ ~loading
    /\ handleQueryByRules(trim(input))

\* Lines 173-211: queryDuckDB has settled in the older handleQuery.
RulesQueryReturns(engineOutcome, t) ==
    /\ handleQueryPc = "rulesQuery"
    /\ LET r == queryDuckDB(engineOutcome)
       IN IF r.kind = "throw"
          THEN \* lines 204-210
               /\ messages' = Append(messages, ErrorMessage(r.message))
               /\ pipeline' = Append(pipeline, "error")
               /\ Ran("RulesQueryReturns", 0)
               /\ UNCHANGED <<result, submitted>>
               /\ UNCHANGED <<queryHistory, viewState, queryResults, currentQueryName, nowMs>>
          ELSE IF RowsFound(r.value) /\ queryIntent.dataType = <<"s", "c", "h", "e", "m", "a">>
          THEN \* lines 179-184
               /\ messages' = messages
                     \o <<Said(<<"Schema has ">> \o toString(Len(r.value)) \o <<" columns:">>),
                          Said(<<"column_name (column_type)">>)>>
               /\ pipeline' = Append(pipeline, "rows")
               /\ result' = r.value
               /\ Ran("RulesQueryReturns", 0)
               /\ UNCHANGED submitted
               /\ UNCHANGED <<queryHistory, viewState, queryResults, currentQueryName, nowMs>>
          ELSE IF RowsFound(r.value)
          THEN \* lines 186-199
               LET geoJSON == JsonRoundTrip(convertToGeoJSON(r.value))
               IN /\ messages' = Append(messages,
                        Said(<<"Found ">> \o toString(Len(r.value)) \o <<" ">>
                             \o queryIntent.dataType
                             \o (IF Truthy(queryIntent.location)
                                 THEN <<" within ">> \o toString(queryIntent.radius)
                                      \o <<"km of ">> \o queryIntent.location
                                 ELSE <<>>)
                             \o <<" in the database.">>))
                  /\ result' = r.value
                  /\ submitted' = Append(submitted, queryText)
                  /\ applyQueryResult(geoJSON, LayerLabel(queryIntent), t)
                  /\ pipeline' = pipeline \o <<"rows", "convert">>
                                 \o (IF HasFeatures(geoJSON) THEN <<"append", "fit">> ELSE <<>>)
                  /\ Ran("handleQueryGenerated", Len(geoJSON.features))
          ELSE \* lines 200-203
               /\ messages' = Append(messages, NoneFoundMessage(queryIntent))
               /\ pipeline' = Append(pipeline, "no rows")
               /\ Ran("RulesQueryReturns", 0)
               /\ UNCHANGED <<result, submitted>>
               /\ UNCHANGED <<queryHistory, viewState, queryResults, currentQueryName, nowMs>>
    /\ loading' = FALSE
    /\ handleQueryPc' = "idle"
    /\ download' = NoDownload
    /\ UNCHANGED <<queryText, queryIntent, serviceCalls, executed, submits>>
    /\ UNCHANGED <<currentLocation, pendingCenter, newestCenter, selectedQueries, exportFormat>>
    /\ UNCHANGED engineVars

-----------------------------------------------------------------------------
(* Specifications *)

Init == InitEngine /\ InitSession /\ InitChat

\* The engine singleton under concurrent callers.
SpecEngine == Init /\ [][NextEngine]_vars

LayerIds == {queryHistory[i].id : i \in 1..Len(queryHistory)}

\* The ids a layer button can carry, and one id no layer has.
IdArguments == LayerIds \cup {toString(0)}

\* The layer sequence under results of every kind. A result may arrive at
\* any clock reading that is not earlier than the last one.
NextLayers ==
    \/ \E g \in GeoJSONInputs, t \in nowMs..MaxClock :
          /\ HasFeatures(g) => Len(queryHistory) < MaxLayers
          /\ handleQueryGenerated(g, <<"buildings">>, t)
    \/ \E id \in IdArguments : toggleLayerVisibility(id)
    \/ \E id \in IdArguments : removeLayer(id)
    \/ clearAllLayers

SpecLayers == Init /\ [][NextLayers]_vars

\* SearchBar.tsx lines 67-77: a search result with its coordinates, a
\* popular city (sent with 0, 0), and a search result on the prime meridian.
LocationSelections ==
    {[place |-> "Tallinn, Estonia", lat |-> 594, lon |-> 247],
     [place |-> "Tallinn", lat |-> 0, lon |-> 0],
     [place |-> "Greenwich, London", lat |-> 515, lon |-> 0]}

\* The session under the user's layer and location actions.
NextSession ==
    \/ \E t \in nowMs..MaxClock :
          /\ Len(queryHistory) < MaxLayers
          /\ handleQueryGenerated(ParsedInput(TRUE, TRUE, <<PointFeature, LineFeature>>),
                                  <<"buildings">>, t)
    \/ \E id \in IdArguments : toggleLayerVisibility(id)
    \/ \E id \in IdArguments : removeLayer(id)
    \/ clearAllLayers
    \/ \E selection \in LocationSelections :
          /\ (selection.lat = 0 \/ selection.lon = 0) => Len(pendingCenter) < MaxPending
          /\ handleLocationSelect(selection.place, selection.lat, selection.lon)
    \/ \E i \in 1..Len(pendingCenter), outcome \in {"found", "empty", "error"} :
          CenterResponse(i, outcome)

SpecSession == Init /\ [][NextSession]_vars

\* SearchBar.tsx lines 22-26: three of the popular cities.
popularCities == {"Tallinn", "Tartu", "Narva"}

\* The popular-city buttons (SearchBar.tsx lines 75-77) and the answers of
\* the place resolver, which arrive in any order.
NextCenter ==
    \/ \E city \in popularCities :
          /\ Len(pendingCenter) < MaxCenterRequests
          /\ handleLocationSelect(city, 0, 0)
    \/ \E i \in 1..Len(pendingCenter), outcome \in {"found", "empty", "error"} :
          CenterResponse(i, outcome)

SpecCenter == Init /\ [][NextCenter]_vars

\* The results that arrive while the export panel is in use: an empty one
\* and one with two features.
ExportInputs ==
    {ParsedInput(TRUE, TRUE, <<>>),
     ParsedInput(TRUE, TRUE, <<PointFeature, LineFeature>>)}

\* The session with the export panel in use.
NextExport ==
    \/ \E g \in ExportInputs, label \in Labels, t \in nowMs..MaxClock :
          /\ HasFeatures(g) => Len(queryHistory) < MaxExportLayers
          /\ handleQueryGenerated(g, label, t)
    \/ \E id \in IdArguments : toggleLayerVisibility(id)
    \/ \E id \in IdArguments : removeLayer(id)
    \/ clearAllLayers
    \/ selectAll
    \/ selectNone
    \/ \E format \in {"geojson", "csv"} : setExportFormat(format)
    \/ handleExport

SpecExport == Init /\ [][NextExport]_vars

\* The session with the checkboxes of the export panel in use. A checkbox
\* exists for each layer of the session (ExportPanel.tsx lines 250-266).
\* Results arrive at clock readings that differ, so layer ids differ.
NextSelection ==
    \/ \E t \in (nowMs + 1)..(MaxClock + 1) :
          /\ Len(queryHistory) < MaxExportLayers
          /\ handleQueryGenerated(ParsedInput(TRUE, TRUE, <<PointFeature, LineFeature>>),
                                  <<>>, t)
    \/ \E id \in LayerIds : removeLayer(id)
    \/ clearAllLayers
    \/ \E id \in LayerIds : toggleQuerySelection(id)
    \/ selectAll
    \/ selectNone
    \/ handleExport

SpecSelection == Init /\ [][NextSelection]_vars

\* The session with many layers: every result arrives one millisecond after
\* the last, with one point feature.
NextPalette ==
    \/ /\ nowMs < MaxPaletteClock
       /\ handleQueryGenerated(ParsedInput(TRUE, TRUE, <<PointFeature>>),
                               <<"buildings">>, nowMs + 1)
    \/ \E id \in LayerIds : toggleLayerVisibility(id)
    \/ \E id \in LayerIds : removeLayer(id)

SpecPalette == Init /\ [][NextPalette]_vars

\* The texts submitted to the chat, the answers of the reasoning service and
\* the outcomes of a statement in the chat specification.
ChatTexts ==
    {CenterMapOnTartu, FlyToBuildingTypes, ShowBuildingsThenMoveToTartu,
     WhatTypesAreAvailable, FindRoadsNearTartu}

ChatServiceOutcomes == {NoKey, Rejects, Answers(<<RoadsNearTallinn>>)}

EngineOutcomes ==
    {Fails(<<"Catalog Error: Table does not exist">>),
     GivesRows(<<>>),
     GivesRows(<<PointRow, LineRow>>)}

ExplanationOutcomes == {Rejects, Answers(<<>>), Answers(<<Prose>>)}

\* The chat: one handleQuery at a time, each await settling in any way.
NextChat ==
    \/ \E input \in ChatTexts, apiKey \in BOOLEAN :
          /\ submits < MaxSubmits
          /\ handleSubmit(input, apiKey)
    \/ \E service \in ChatServiceOutcomes : AnalysisReturns(service)
    \/ \E engineOutcome \in EngineOutcomes : QueryReturns(engineOutcome)
    \/ \E service \in ExplanationOutcomes : ExplanationReturns(service, nowMs + 1)

SpecChat == Init /\ [][NextChat]_vars

\* The texts that start a handleQuery: two typed into the input box and the
\* text of the quick action 'Roads'.
ChatStarts ==
    {[box |-> TRUE, text |-> CenterMapOnTartu],
     [box |-> TRUE, text |-> FindRoadsNearTartu],
     [box |-> FALSE, text |-> RoadsAction.query]}

\* The chat with its input box and its quick-action buttons, a key being
\* configured: the resolver is answered or rejected, the engine fails, gives
\* no row or gives rows, the explanation is answered or rejected.
NextQuick ==
    \/ \E start \in ChatStarts :
          /\ submits < MaxSubmits
          /\ Len(pendingCenter) < MaxPending
          /\ callHandleQuery(start.box, start.text, TRUE)
    \/ \E action \in quickActions :
          /\ Len(pendingCenter) < MaxPending
          /\ handleQuickActionCenter(action)
    \/ \E service \in {Rejects, Answers(<<RoadsNearTallinn>>)} : AnalysisReturns(service)
    \/ \E engineOutcome \in EngineOutcomes : QueryReturns(engineOutcome)
    \/ \E service \in {Rejects, Answers(<<Prose>>)} : ExplanationReturns(service, nowMs + 1)

SpecQuick == Init /\ [][NextQuick]_vars

\* A step in which the call that handleQuery awaits at position pc returns
\* or fails: the handler leaves the position (AnalysisReturns, QueryReturns
\* and ExplanationReturns are the steps that do).
Settles(pc) ==
    /\ handleQueryPc = pc
    /\ handleQueryPc' \in {"idle", "query", "explain"} \ {pc}

\* Every await of handleQuery settles: analyzeQueryWithGPT, queryDuckDB and
\* generateQueryExplanation each return or fail.
EveryCallSettles ==
    /\ WF_handleQueryPc(Settles("analyze"))
    /\ WF_handleQueryPc(Settles("analyzeNoKey"))
    /\ WF_handleQueryPc(Settles("query"))
    /\ WF_handleQueryPc(Settles("explain"))

SpecQuickSettles == SpecQuick /\ EveryCallSettles

\* The chat with every outcome of the reasoning service, for one text that
\* is not a centre directive.
NextResolver ==
    \/ \E apiKey \in BOOLEAN :
          /\ submits < MaxSubmits
          /\ handleSubmit(FindRoadsNearTartu, apiKey)
    \/ \E service \in ServiceOutcomes : AnalysisReturns(service)
    \/ \E engineOutcome \in EngineOutcomes : QueryReturns(engineOutcome)
    \/ \E service \in ExplanationOutcomes : ExplanationReturns(service, nowMs + 1)

SpecResolver == Init /\ [][NextResolver]_vars

\* The chat with no reasoning service configured: VITE_GEMINI_API_KEY is
\* not set, so analyzeQueryWithGPT makes no call and the call made by
\* generateQueryExplanation is rejected.
NoServiceTexts ==
    {ShowMeBuildingsWithin5kmOfTallinn, FindRoadsNearTartu, WhatTypesAreAvailable, Hello}

NextNoService ==
    \/ \E input \in NoServiceTexts :
          /\ submits < MaxSubmits
          /\ handleSubmit(input, FALSE)
    \/ AnalysisReturns(NoKey)
    \/ \E engineOutcome \in EngineOutcomes : QueryReturns(engineOutcome)
    \/ ExplanationReturns(Rejects, nowMs + 1)

SpecNoService == Init /\ [][NextNoService]_vars

BuildingsInTallinnWithin5km ==
    <<"B", "u", "i", "l", "d", "i", "n", "g", "s", " ", "i", "n", " ", "T", "a", "l", "l", "i", "n", "n", " ", "w", "i", "t", "h", "i", "n", " ", "5", "k", "m">>

Schema == <<"s", "c", "h", "e", "m", "a">>

\* The texts submitted to the older, rule-based chat.
RuleTexts ==
    {ShowMeBuildingsWithin5kmOfTallinn, BuildingsInTallinnWithin5km, FindRoadsNearTartu,
     WhatTypesAreAvailable, CenterMapOnTartu, Schema, Hello}

\* The older chat of src/unnamed/part_001: one handleQuery at a time.
NextRules ==
    \/ \E input \in RuleTexts :
          /\ submits < MaxSubmits
          /\ handleSubmitByRules(input)
    \/ \E engineOutcome \in EngineOutcomes : RulesQueryReturns(engineOutcome, nowMs + 1)

SpecRules == Init /\ [][NextRules]_vars

\* The rows a statement can return: one row of each kind of geometry, and
\* rows without a geometry that carry lon/lat, longitude/latitude or neither.
RowKinds ==
    {PointRow, LineRow, PolygonRow, HoleRow, MultiPolygonRow,
     LonLatRow, LongitudeLatitudeRow, BareRow}

RowLists == UNION {[1..n -> RowKinds] : n \in 1..MaxRows}

\* convertToGeoJSON on every list of rows: handleQuery has run the default
\* statement (no API key) and holds the rows, at line 112.
InitCodec ==
    /\ InitEngine
    /\ InitSession
    /\ loading = TRUE
    /\ messages = <<Welcome, Said(<<"Processing your query with Gemini...">>),
                    Said(<<"Analysis: ">> \o DefaultIntent.explanation),
                    Said(<<"Running query...">>)>>
    /\ handleQueryPc = "explain"
    /\ queryText = FindRoadsNearTartu
    /\ queryIntent = DefaultIntent
    /\ result \in RowLists
    /\ submitted = <<>>
    /\ serviceCalls = 1
    /\ executed = <<DefaultIntent.query>>
    /\ pipeline = <<"resolve", "resolved", "execute", "rows">>
    /\ submits = 1

NextCodec == \E service \in ExplanationOutcomes : ExplanationReturns(service, nowMs + 1)

SpecCodec == InitCodec /\ [][NextCodec]_vars

-----------------------------------------------------------------------------
(* Claims about the engine singleton *)

NoSetupFailed == \A r \in Runs : promiseState[r] # "rejected"

CallKinds == DOMAIN NoCalls

\* C1: as long as no setup has failed, the setup sequence runs exactly once
\* however the calls to initializeDuckDB interleave: one closure is started as
\* soon as any call is made, no engine call of the sequence (instantiate,
\* INSTALL, LOAD, the three registrations) is issued twice, and each has been
\* issued exactly once when the setup promise resolves.
C1_SetupRunsOnce ==
    NoSetupFailed =>
        /\ setupRuns <= 1
        /\ (\E c \in Callers : caller[c].pc # "idle") => setupRuns = 1
        /\ \A k \in CallKinds : engineCalls[k] <= 1
        /\ (\E r \in Runs : promiseState[r] = "resolved") =>
               \A k \in CallKinds : engineCalls[k] = 1

\* Two calls were in flight together (both were made before db was assigned,
\* so both waited for the setup promise) and both have their handle, with no
\* failure.
C1_Witness ==
    /\ NoSetupFailed
    /\ \E c1, c2 \in Callers :
          /\ c1 # c2
          /\ caller[c1].pc = "got" /\ caller[c1].via = "promise"
          /\ caller[c2].pc = "got" /\ caller[c2].via = "promise"
    /\ \A k \in CallKinds : engineCalls[k] = 1

\* C2: whenever a call to initializeDuckDB hands a handle to its caller, the
\* engine behind that handle is working at that moment: instantiated, spatial
\* extension loaded, all three datasets registered.
C2_ReturnedHandleWorks ==
    [][\A c \in Callers :
          (caller[c].pc # "got" /\ caller'[c].pc = "got") => (Working(caller[c].h))']_vars

SetupRejected ==
    \E r \in Runs : promiseState[r] # "rejected" /\ promiseState'[r] = "rejected"

\* C3 as stated: once a setup has failed, no later call starts the setup
\* sequence again and no later query succeeds.
C3_FailureIsFatal ==
    [][(\E r \in Runs : promiseState[r] = "rejected") =>
          /\ setupRuns' = setupRuns
          /\ \A c \in Callers : caller'[c].pc = "queried" => caller[c].pc = "queried"]_vars

\* C3 amended: a failed setup clears db and initializationPromise, and a call
\* that finds both cleared starts the setup sequence again and waits for it.
C3_FailureIsRetried ==
    [][/\ SetupRejected =>
             (db' = 0 /\ initializationPromise' = 0 /\ setupPc' = "idle")
       /\ \A c \in Callers :
             (/\ caller[c].pc = "idle" /\ caller'[c].pc # "idle"
              /\ db = 0 /\ initializationPromise = 0)
             => /\ setupRuns' = setupRuns + 1
                /\ setupPc' = "selectBundle"
                /\ initializationPromise' = setupRuns'
                /\ caller'[c].pc = "awaitInit" /\ caller'[c].h = setupRuns']_vars

\* A setup failed, a later call ran the setup again, and a query on the new
\* engine returned its rows.
C3_Witness ==
    /\ promiseState[1] = "rejected"
    /\ promiseState[2] = "resolved"
    /\ \E c \in Callers : caller[c].pc = "done" /\ caller[c].h = 2

-----------------------------------------------------------------------------
(* Claims about the layer/session state *)

LastLayer(history) == history[Len(history)]

RECURSIVE IsSubSeq(_, _)
\* a is b with some elements left out.
IsSubSeq(a, b) ==
    IF a = <<>> THEN TRUE
    ELSE IF b = <<>> THEN FALSE
    ELSE IF Head(a) = Head(b) THEN IsSubSeq(Tail(a), Tail(b))
    ELSE IsSubSeq(a, Tail(b))

\* C4: a call of handleQueryGenerated with n >= 1 features appends exactly
\* one layer at the end of queryHistory, holding exactly those features and
\* visible; the layers already there keep their places and all their fields.
C4_AppendsOneLayer ==
    [][\A g \in GeoJSONInputs, label \in Labels, t \in nowMs..MaxClock :
          (g.parses /\ g.hasFeatures /\ Len(g.features) >= 1
           /\ handleQueryGenerated(g, label, t))
          => /\ Len(queryHistory') = Len(queryHistory) + 1
             /\ SubSeq(queryHistory', 1, Len(queryHistory)) = queryHistory
             /\ LastLayer(queryHistory').data.features = g.features
             /\ LastLayer(queryHistory').visible]_vars

\* A two-feature result was appended as the third layer, after a layer
\* that is hidden.
C4_Witness ==
    /\ lastCall = Call("handleQueryGenerated", 2)
    /\ Len(queryHistory) = 3
    /\ Len(LastLayer(queryHistory).data.features) = 2
    /\ Len(queryHistory[1].data.features) = 1
    /\ ~queryHistory[2].visible

\* C5: a call of handleQueryGenerated with an empty feature list changes
\* neither the layers, the viewport, the latest result nor the query name.
C5_EmptyResultChangesNothing ==
    [][\A label \in Labels, t \in nowMs..MaxClock :
          handleQueryGenerated(ParsedInput(TRUE, TRUE, <<>>), label, t)
          => UNCHANGED <<queryHistory, viewState, queryResults, currentQueryName,
                         currentLocation, nowMs>>]_vars

\* An empty result arrived in a session that holds layers and a fitted
\* viewport.
C5_Witness ==
    /\ lastCall = Call("handleQueryGenerated", 0)
    /\ Len(queryHistory) >= 2
    /\ viewState.kind = "fit"
    /\ queryResults # NullResults

\* C6: no two layers of the session have the same id, and ids increase in
\* creation order.
C6_LayerIdsUnique ==
    \A i, j \in 1..Len(queryHistory) :
        i < j => /\ queryHistory[i].id # queryHistory[j].id
                 /\ queryHistory[i].timestamp < queryHistory[j].timestamp

SameIdentity(a, b) ==
    /\ a.id = b.id
    /\ a.name = b.name
    /\ a.timestamp = b.timestamp
    /\ a.data = b.data

\* C7: every layer holds at least one feature; a step either keeps every
\* layer in place with its id, name, timestamp and data (possibly appending
\* one), a visible flag changing only in toggleLayerVisibility, or it is a
\* removal and the layers that remain are untouched.
C7_LayersImmutable ==
    [][/\ \A i \in 1..Len(queryHistory') : Len(queryHistory'[i].data.features) >= 1
       /\ \/ /\ Len(queryHistory') \in {Len(queryHistory), Len(queryHistory) + 1}
             /\ \A i \in 1..Len(queryHistory) :
                   /\ SameIdentity(queryHistory'[i], queryHistory[i])
                   /\ queryHistory'[i].visible # queryHistory[i].visible
                         => lastCall'.op = "toggleLayerVisibility"
          \/ /\ lastCall'.op \in {"removeLayer", "clearAllLayers"}
             /\ IsSubSeq(queryHistory', queryHistory)]_vars

\* Layers were exported while one of two layers, differently named, was
\* hidden.
C7_Witness ==
    /\ lastCall.op = "handleExport"
    /\ download.kind # "none"
    /\ Len(queryHistory) = 2
    /\ queryHistory[1].name # queryHistory[2].name
    /\ ~queryHistory[1].visible

\* C8: toggleLayerVisibility(id) flips the visible flag of the layers whose
\* id is id and changes no other field, no other layer, neither the number
\* nor the order of the layers, nor the viewport, nor the location label; a
\* second toggle of the same id gives back the layers it started from.
C8_ToggleFlipsOnlyVisible ==
    [][\A id \in IdArguments :
          toggleLayerVisibility(id)
          => /\ Len(queryHistory') = Len(queryHistory)
             /\ \A i \in 1..Len(queryHistory) :
                   /\ SameIdentity(queryHistory'[i], queryHistory[i])
                   /\ queryHistory'[i].visible =
                         IF queryHistory[i].id = id
                         THEN ~queryHistory[i].visible ELSE queryHistory[i].visible
             /\ [i \in 1..Len(queryHistory') |-> ToggleIfMatch(queryHistory'[i], id)]
                   = queryHistory
             /\ UNCHANGED <<viewState, currentLocation, queryResults, currentQueryName,
                            pendingCenter>>]_vars

\* A toggle ran on three layers with two different ids, after the map was
\* centred on a place, and left hidden and visible layers.
C8_Witness ==
    /\ lastCall = Call("toggleLayerVisibility", 3)
    /\ Len(queryHistory) = 3
    /\ queryHistory[1].id # queryHistory[3].id
    /\ \E i \in 1..3 : queryHistory[i].visible
    /\ \E i \in 1..3 : ~queryHistory[i].visible
    /\ currentLocation = "Tallinn"

\* C9: removeLayer(id) leaves no layer with that id and keeps every other
\* layer, unchanged and in the same order; clearAllLayers leaves no layer;
\* neither changes the viewport or the location label.
C9_RemoveKeepsTheOthers ==
    [][/\ \A id \in IdArguments :
             removeLayer(id)
             => /\ \A i \in 1..Len(queryHistory') : queryHistory'[i].id # id
                /\ IsSubSeq(queryHistory', queryHistory)
                /\ Len(queryHistory') =
                      Cardinality({i \in 1..Len(queryHistory) : queryHistory[i].id # id})
                /\ UNCHANGED <<viewState, currentLocation>>
       /\ clearAllLayers
             => /\ queryHistory' = <<>>
                /\ UNCHANGED <<viewState, currentLocation>>]_vars

\* One of three layers was removed, the two others (one hidden) remain, and
\* the map had been centred on a place.
C9_Witness ==
    /\ lastCall = Call("removeLayer", 3)
    /\ Len(queryHistory) = 2
    /\ ~queryHistory[1].visible
    /\ queryHistory[2].visible
    /\ currentLocation = "Tallinn"
    /\ viewState.kind = "at"

\* The positions in queryHistory of the visible layers, in order.
VisiblePositions ==
    SelectSeq([i \in 1..Len(queryHistory) |-> i], LAMBDA i : queryHistory[i].visible)

\* C10: the render list holds the visible layers in order; the fill colour
\* of the layer at position i of queryHistory (from 0, hidden layers counted)
\* is entry i mod 7 of the palette and its line colour is 0.7 times the fill,
\* channel by channel (in tenths: 7 times).
C10_ColourByPosition ==
    /\ Len(layers) = Len(VisiblePositions)
    /\ \A k \in 1..Len(layers) :
          LET i == VisiblePositions[k] - 1
          IN /\ layers[k].id = <<"query-">> \o queryHistory[i + 1].id
             /\ layers[k].getFillColor = colors[(i % 7) + 1]
             /\ \A ch \in 1..3 :
                   layers[k].getLineColor[ch] = 7 * layers[k].getFillColor[ch]

\* A layer in the middle of nine was removed: eight remain, the first and
\* the last of the nine among them, the second hidden, the eighth visible
\* and now drawn in the first palette colour again.
C10_Witness ==
    /\ lastCall = Call("removeLayer", 9)
    /\ Len(queryHistory) = 8
    /\ queryHistory[1].timestamp = 2
    /\ queryHistory[8].timestamp = 10
    /\ ~queryHistory[2].visible
    /\ queryHistory[8].visible
    /\ layers[Len(layers)].getFillColor = colors[1]

-----------------------------------------------------------------------------
(* Claims about the chat pipeline *)

\* The steps of one submitted query in the order the claim gives them, for a
\* query that runs to its end.
FullPipeline == <<"resolve", "resolved", "execute", "rows", "convert", "append", "fit">>

IsPrefix(s, t) == Len(s) <= Len(t) /\ \A i \in 1..Len(s) : s[i] = t[i]

\* The step orders one handleQuery can take: the full one, or one cut short
\* by the centre branch, a failed analysis, a failed statement or no rows.
PipelineInOrder ==
    \/ IsPrefix(pipeline, FullPipeline)
    \/ pipeline \in {<<"center">>,
                     <<"resolve", "not understood">>,
                     <<"resolve", "resolved", "execute", "error">>,
                     <<"resolve", "resolved", "execute", "no rows">>}

C11_Step ==
    /\ PipelineInOrder'
    \* a statement is executed only when the resolver has returned, and it is
    \* the statement of the intent the resolver returned
    /\ executed' # executed =>
          /\ handleQueryPc \in {"analyze", "analyzeNoKey"}
          /\ queryIntent' # NoIntent
          /\ executed' = Append(executed, queryIntent'.query)
    \* a layer is appended only after the statement returned one row or more
    /\ queryHistory' # queryHistory =>
          /\ handleQueryPc = "explain"
          /\ Len(result) >= 1
          /\ Len(executed) >= 1
          /\ Len(queryHistory') = Len(queryHistory) + 1
          /\ Len(LastLayer(queryHistory').data.features) = Len(result)
    \* the viewport is fitted only in a step that appended a layer
    /\ viewState' # viewState => Len(queryHistory') = Len(queryHistory) + 1

\* C11: within one submitted query the steps happen in the order resolve,
\* execute, convert, append, fit: a statement is executed only after the
\* resolver has returned (and it is the returned intent's statement), a layer
\* is appended only after the statement returned at least one row, and the
\* viewport is fitted only in a pipeline that appended a layer.
C11_StepsInOrder == [][C11_Step]_vars

\* A query ran to its end: the returned intent's statement was executed, two
\* rows became a layer of two features and the viewport moved.
C11_Witness ==
    /\ pipeline = FullPipeline
    /\ executed = <<RoadsNearTallinn.query>>
    /\ Len(queryHistory) = 1
    /\ Len(queryHistory[1].data.features) = 2
    /\ viewState # INITIAL_VIEW_STATE

\* The answer holds no JSON object with a dataType, a query and an
\* explanation.
NothingUsable(service) ==
    \/ service.kind # "text"
    \/ \A i \in 1..Len(service.content) :
          LET part == service.content[i]
          IN \/ part.kind # "object"
             \/ part.dataType = << >> \/ part.query = << >> \/ part.explanation = << >>

RoadsNearTallinnIntent ==
    QueryIntent(RoadsNearTallinn.dataType, RoadsNearTallinn.location, RoadsNearTallinn.radius,
                RoadsNearTallinn.query, RoadsNearTallinn.explanation)

\* C12: analyzeQueryWithGPT never surfaces an exception: for every outcome
\* of the reasoning service handleQuery goes on to run a statement (its catch
\* block of lines 94-99 is not entered), the intent it holds has a non-empty
\* dataType, query and explanation, and it is the default intent when the
\* service returned nothing usable.
C12_ResolverAlwaysReturnsIntent ==
    [][\A service \in ServiceOutcomes :
          AnalysisReturns(service) =>
             /\ handleQueryPc' = "query"
             /\ \A i \in 1..Len(messages') : messages'[i].text # <<"I couldn't understand that.">>
             /\ queryIntent'.dataType # << >>
             /\ queryIntent'.query # << >>
             /\ queryIntent'.explanation # << >>
             /\ queryIntent' \in {DefaultIntent, RoadsNearTallinnIntent}
             /\ NothingUsable(service) => queryIntent' = DefaultIntent
             /\ executed' = Append(executed, queryIntent'.query)]_vars

\* The service was called and gave nothing usable: the default intent was
\* returned, announced and its statement run.
C12_Witness ==
    /\ lastCall = Call("AnalysisReturns", 0)
    /\ handleQueryPc = "query"
    /\ queryIntent = DefaultIntent
    /\ messages[Len(messages) - 1].text = <<"Analysis: ">> \o DefaultIntent.explanation
    /\ executed = <<DefaultIntent.query>>
    /\ serviceCalls = 1

\* C13: when the statement fails, the error reaches handleQuery, which posts
\* exactly one message, "Error: " followed by the text of the error, runs no
\* statement again, appends no layer and leaves the viewport as it was.
C13_FailureReportedOnce ==
    [][\A engineOutcome \in EngineOutcomes :
          (engineOutcome.kind = "fails" /\ QueryReturns(engineOutcome)) =>
             /\ messages' = Append(messages,
                   [text |-> <<"Error: ">> \o engineOutcome.message \o <<". Please try again.">>,
                    isUser |-> FALSE])
             /\ executed' = executed
             /\ handleQueryPc' = "idle"
             /\ ~loading'
             /\ queryHistory' = queryHistory
             /\ viewState' = viewState]_vars

\* A statement failed with a catalog error: the pipeline ended there, the
\* last message carries the error's text, one statement was run in all and
\* there is no layer.
C13_Witness ==
    /\ lastCall = Call("QueryReturns", 0)
    /\ pipeline = <<"resolve", "resolved", "execute", "error">>
    /\ messages[Len(messages)].text =
          <<"Error: ", "Catalog Error: Table does not exist", ". Please try again.">>
    /\ Len(executed) = 1
    /\ queryHistory = <<>>
    /\ viewState = INITIAL_VIEW_STATE

\* C14: a statement that returns no rows is not a failure: handleQuery posts
\* the one message "No <dataType> found ...", no message starting with
\* "Error: ", appends no layer, leaves the viewport as it was and does not
\* call onQueryGenerated (nor the explanation service).
C14_NoRowsIsNotAnError ==
    [][\A engineOutcome \in EngineOutcomes :
          (engineOutcome.kind = "rows" /\ engineOutcome.rows = <<>>
           /\ QueryReturns(engineOutcome)) =>
             /\ Len(messages') = Len(messages) + 1
             /\ SubSeq(messages', 1, Len(messages)) = messages
             /\ SubSeq(messages'[Len(messages')].text, 1, 3)
                   = <<"No ">> \o queryIntent.dataType \o <<" found">>
             /\ messages'[Len(messages')].text[1] # "Error: "
             /\ queryHistory' = queryHistory
             /\ viewState' = viewState
             /\ queryResults' = queryResults
             /\ lastCall'.op # "handleQueryGenerated"
             /\ serviceCalls' = serviceCalls
             /\ handleQueryPc' = "idle"
             /\ ~loading']_vars

\* The statement for roads near Tallinn returned no rows: the last message
\* says so, naming the radius and the place, and there is no layer.
C14_Witness ==
    /\ lastCall = Call("QueryReturns", 0)
    /\ pipeline = <<"resolve", "resolved", "execute", "no rows">>
    /\ messages[Len(messages)].text =
          <<"No ", "roads", " found", " within ", "1", "0", "km of ", "Tallinn",
            ". Try a different search term or location.">>
    /\ queryHistory = <<>>
    /\ viewState = INITIAL_VIEW_STATE

\* The chat texts the pattern of line 78 matches somewhere.
MatchesCenterPattern(text) == centerMatch(text).index # 0

\* C15: the centre directive has priority: whenever the submitted text
\* matches the centre pattern, handleQuery calls onCenterMap once with the
\* place the pattern extracted, and makes no call of the reasoning service,
\* runs no statement and creates no layer, whatever else the text contains.
C15_CenterDirectiveFirst ==
    [][\A input \in ChatTexts, apiKey \in BOOLEAN :
          (/\ lastCall' = Call("handleQuery", 0)
           /\ queryText' = trim(input)
           /\ MatchesCenterPattern(input)
           /\ handleSubmit(input, apiKey)) =>
             /\ pendingCenter' = Append(pendingCenter, trim(centerMatch(input).group))
             /\ messages' = Append(messages,
                   [text |-> <<"Centering map on ">> \o trim(centerMatch(input).group) \o <<"...">>,
                    isUser |-> FALSE])
             /\ serviceCalls' = serviceCalls
             /\ executed' = executed
             /\ queryHistory' = queryHistory
             /\ viewState' = viewState
             /\ handleQueryPc' = "idle"
             /\ ~loading']_vars

\* "fly to building types", a text with a dataset keyword and an explain
\* keyword, was submitted: the place "building types" was handed to
\* onCenterMap and nothing else happened.
C15_Witness ==
    /\ lastCall = Call("handleQuery", 0)
    /\ queryText = FlyToBuildingTypes
    /\ includes(toLowerCase(queryText), <<"b", "u", "i", "l", "d", "i", "n", "g">>)
    /\ includes(toLowerCase(queryText), <<"t", "y", "p", "e", "s">>)
    /\ pendingCenter = <<SubSeq(FlyToBuildingTypes, 8, Len(FlyToBuildingTypes))>>
    /\ pipeline = <<"center">>
    /\ serviceCalls = 0
    /\ executed = <<>>
    /\ queryHistory = <<>>

\* One of the directive verbs center, go to, move, fly stands at the start
\* of the text.
VerbAtStart(text) == \E k \in 1..Len(CenterVerbs) : MatchesAt(text, 1, CenterVerbs[k])

\* C16: a centre directive is produced (onCenterMap is called) only for a
\* text that starts with a directive verb; a text in which the verb comes
\* later is resolved and executed instead.
C16_CenterOnlyWhenVerbLeads ==
    [][\A input \in ChatTexts, apiKey \in BOOLEAN :
          (/\ lastCall' = Call("handleQuery", 0)
           /\ queryText' = trim(input)
           /\ handleSubmit(input, apiKey)) =>
             IF VerbAtStart(input)
             THEN pendingCenter' # pendingCenter
             ELSE pendingCenter' = pendingCenter /\ handleQueryPc' \in {"analyze", "analyzeNoKey"}]_vars

\* C17: a text that does not match the centre pattern and contains
\* 'available', 'types' or 'what' is answered at once and nothing is
\* executed: handleQuery ends in that step without a call of the reasoning
\* service, without a statement, a layer or a viewport change.
C17_ExplainExecutesNothing ==
    [][\A input \in ChatTexts, apiKey \in BOOLEAN :
          (/\ lastCall' = Call("handleQuery", 0)
           /\ queryText' = trim(input)
           /\ ~MatchesCenterPattern(input)
           /\ IsExplainRequest(input)
           /\ handleSubmit(input, apiKey)) =>
             /\ handleQueryPc' = "idle"
             /\ ~loading'
             /\ serviceCalls' = serviceCalls
             /\ executed' = executed
             /\ queryHistory' = queryHistory
             /\ viewState' = viewState]_vars

\* The city Tallinn as an intent may name it.
TallinnNames == {<<"Tallinn">>, <<"tallinn">>, <<"T", "a", "l", "l", "i", "n", "n">>, <<"t", "a", "l", "l", "i", "n", "n">>}

\* The intent the claim expects for "Show me buildings within 5km of
\* Tallinn": buildings, 5, Tallinn, and a statement that reads buildings,
\* keeps the rows near Tallinn's centroid and has LIMIT 1000.
IsBuildingsWithin5kmOfTallinn(intent) ==
    /\ intent.dataType = <<"buildings">>
    /\ intent.radius = 5
    /\ intent.location \in TallinnNames
    /\ Len(intent.query) = 1
    /\ intent.query[1].dataset = "buildings"
    /\ Len(intent.query[1].within) >= 2
    /\ SubSeq(intent.query[1].within, 1, 2) = <<"24.7536", "59.4369">>
    /\ intent.query[1].limit = 1000

\* C18: with no reasoning service configured, the intent resolved for "Show
\* me buildings within 5km of Tallinn" is built from the text: dataType
\* buildings, radius 5, location Tallinn, and a statement reading buildings
\* with a distance predicate around Tallinn and LIMIT 1000.
C18_IntentFromTextWithoutService ==
    [][(/\ queryText = ShowMeBuildingsWithin5kmOfTallinn
        /\ AnalysisReturns(NoKey)) =>
          IsBuildingsWithin5kmOfTallinn(queryIntent')]_vars

\* C18, for the older handleQuery of src/unnamed/part_001, which resolves
\* every text by its rules: the intent it makes of "Show me buildings within
\* 5km of Tallinn" is the one the claim expects.
C18_RulesIntentFromText ==
    [][(/\ queryText' = ShowMeBuildingsWithin5kmOfTallinn
        /\ handleSubmitByRules(ShowMeBuildingsWithin5kmOfTallinn)) =>
          IsBuildingsWithin5kmOfTallinn(queryIntent')]_vars

\* The rules do give the expected intent for "Buildings in Tallinn within
\* 5km", where the city follows the preposition directly.
C18_RulesIntentForCityAfterPreposition ==
    [][(/\ queryText' = BuildingsInTallinnWithin5km
        /\ handleSubmitByRules(BuildingsInTallinnWithin5km)) =>
          IsBuildingsWithin5kmOfTallinn(queryIntent')]_vars

-----------------------------------------------------------------------------
(* Claims about convertToGeoJSON *)

\* The step in which handleQuery converts the rows it holds.
Converts == \E service \in ExplanationOutcomes : ExplanationReturns(service, nowMs + 1)

\* C19: convertToGeoJSON never drops a row: n rows give n features, in row
\* order, with ids 0..n-1, each with a geometry that is not null: a row
\* without geometry_wkt gets the Point of its lon/lat, else of its
\* longitude/latitude, else the Point [0, 0]. The layer made of the result
\* has the n features.
C19_NeverDropsARow ==
    [][Converts =>
          LET features == convertToGeoJSON(result).features
          IN /\ Len(features) = Len(result)
             /\ \A i \in 1..Len(result) :
                   /\ features[i].id = i - 1
                   /\ features[i].properties.name = result[i].name
                   /\ features[i].geometry.type \in {"Point", "LineString", "Polygon"}
                   /\ features[i].geometry.coordinates # <<>>
                   /\ result[i] = LonLatRow =>
                         features[i].geometry = [type |-> "Point", coordinates |-> <<267, 583>>]
                   /\ result[i] = LongitudeLatitudeRow =>
                         features[i].geometry = [type |-> "Point", coordinates |-> <<247, 594>>]
                   /\ result[i] = BareRow =>
                         features[i].geometry = [type |-> "Point", coordinates |-> <<0, 0>>]
             /\ Len(queryHistory') = 1
             /\ Len(queryHistory'[1].data.features) = Len(result)
             /\ \A i \in 1..Len(result) :
                   /\ queryHistory'[1].data.features[i].id = i - 1
                   /\ queryHistory'[1].data.features[i].properties.name = result[i].name]_vars

\* A row with no geometry and no coordinates, then a row with a point: the
\* layer has two features, the first at [0, 0], in the order of the rows.
C19_Witness ==
    /\ lastCall = Call("handleQueryGenerated", 2)
    /\ result = <<BareRow, PointRow>>
    /\ Len(queryHistory) = 1
    /\ Len(queryHistory[1].data.features) = 2
    /\ queryHistory[1].data.features[1].id = 0
    /\ queryHistory[1].data.features[1].properties.name = "note"
    /\ queryHistory[1].data.features[1].geometry = [type |-> "Point", coordinates |-> <<0, 0>>]
    /\ queryHistory[1].data.features[2].id = 1
    /\ queryHistory[1].data.features[2].properties.name = "kiosk"

\* The shapes the parser recognizes and the geometry type each becomes.
RecognizedShapes == {"POINT", "LINESTRING", "POLYGON", "MULTIPOLYGON"}

ExpectedType(shape) ==
    CASE shape = "POINT" -> "Point"
      [] shape = "LINESTRING" -> "LineString"
      [] shape = "POLYGON" -> "Polygon"
      [] shape = "MULTIPOLYGON" -> "Polygon"

\* The coordinates expected for a geometry written as WKT: the pair of a
\* point, the pairs of a line, the rings of a polygon, the outer ring of a
\* multipolygon.
ExpectedCoordinates(shape, rings) ==
    CASE shape = "POINT" -> rings[1][1]
      [] shape = "LINESTRING" -> rings[1]
      [] shape = "POLYGON" -> rings
      [] shape = "MULTIPOLYGON" -> <<rings[1]>>

\* C20: for every row whose geometry_wkt is the text of a POINT, LINESTRING,
\* POLYGON or MULTIPOLYGON, the parsed geometry has the corresponding type
\* and holds the coordinate pairs of the text, same count, same order, each
\* a pair of numbers.
C20_WktParsedFaithfully ==
    [][Converts =>
          \A i \in 1..Len(result) :
             result[i].geometry.shape \in RecognizedShapes =>
                LET parsed == WktGeometry(result[i].geometry_wkt)
                IN /\ parsed.type = ExpectedType(result[i].geometry.shape)
                   /\ parsed.coordinates
                         = ExpectedCoordinates(result[i].geometry.shape, result[i].geometry.rings)
                   /\ convertToGeoJSON(result).features[i].geometry = parsed]_vars

\* C20 for the texts of POINT, LINESTRING and POLYGON with a single ring,
\* which the parser does read faithfully.
C20_SimpleShapesParsedFaithfully ==
    [][Converts =>
          \A i \in 1..Len(result) :
             result[i] \in {PointRow, LineRow, PolygonRow} =>
                LET parsed == WktGeometry(result[i].geometry_wkt)
                IN /\ parsed.type = ExpectedType(result[i].geometry.shape)
                   /\ parsed.coordinates
                         = ExpectedCoordinates(result[i].geometry.shape, result[i].geometry.rings)]_vars

-----------------------------------------------------------------------------
(* Claims about the export panel and the session *)

\* The positions in queryHistory of the selected layers, in session order.
SelectedPositions ==
    SelectSeq([i \in 1..Len(queryHistory) |-> i],
              LAMBDA i : \E k \in 1..Len(selectedQueries) :
                            selectedQueries[k] = queryHistory[i].id)

\* The number of features of the first n selected layers.
RECURSIVE FeaturesBefore(_)
FeaturesBefore(n) ==
    IF n = 0 THEN 0
    ELSE FeaturesBefore(n - 1)
         + Len(queryHistory[SelectedPositions[n]].data.features)

\* C21: a GeoJSON export of the selected layers holds, layer by layer in
\* session order, the features of the selected layers in their own order:
\* as many features as the layers have together, each with the geometry
\* (type and coordinates) and the properties it had, and with query_name and
\* query_id equal to the name and the id of its layer.
C21_ExportMergesSelectedLayers ==
    [][(/\ lastCall'.op = "handleExport"
        /\ exportFormat = "geojson"
        /\ Len(selectedQueries) > 0
        /\ handleExport) =>
          /\ download'.kind = "geojson"
          /\ Len(download'.body) = FeaturesBefore(Len(SelectedPositions))
          /\ \A n \in 1..Len(SelectedPositions) :
                LET layer == queryHistory[SelectedPositions[n]]
                IN \A j \in 1..Len(layer.data.features) :
                      LET source == layer.data.features[j]
                          written == download'.body[FeaturesBefore(n - 1) + j]
                      IN /\ written.type = source.type
                         /\ written.id = source.id
                         /\ written.geometry = source.geometry
                         /\ \A key \in DOMAIN source.properties :
                               written.properties[key] = source.properties[key]
                         /\ written.properties.query_name = layer.name
                         /\ written.properties.query_id = layer.id]_vars

\* Two layers of two features each, differently named, were exported as
\* GeoJSON: four features, the first two stamped with the first layer's
\* name and the last two with the second's.
C21_Witness ==
    /\ lastCall.op = "handleExport"
    /\ download.kind = "geojson"
    /\ Len(queryHistory) = 2
    /\ queryHistory[1].name # queryHistory[2].name
    /\ Len(download.body) = 4
    /\ download.body[2].properties.query_name = queryHistory[1].name
    /\ download.body[3].properties.query_name = queryHistory[2].name
    /\ download.body[3].properties.query_id = queryHistory[2].id

\* C22: when the place resolver answers a centre request with an empty list
\* or the request fails, the viewport and the location label stay as they
\* were; when it answers with a result, the same step sets the viewport to
\* the result's longitude and latitude at zoom 13 and the label to the
\* requested place.
C22_CenterAppliesResultOrNothing ==
    [][\A i \in 1..Len(pendingCenter), outcome \in {"found", "empty", "error"} :
          CenterResponse(i, outcome) =>
             IF outcome = "found"
             THEN /\ viewState' = [kind |-> "at",
                                   a |-> <<ResolverPosition(pendingCenter[i])[1],
                                           ResolverPosition(pendingCenter[i])[2], 13>>]
                  /\ currentLocation' = pendingCenter[i]
             ELSE /\ viewState' = viewState
                  /\ currentLocation' = currentLocation]_vars

C22_Witness ==
    /\ lastCall.op = "centerResponse"
    /\ newestCenter = [place |-> "Tallinn", state |-> "found"]
    /\ currentLocation = "Tallinn"
    /\ viewState = [kind |-> "at", a |-> <<247, 594, 13>>]

(* Claims about the engine's files and connections *)

\* C23: registerFileBuffer is called only when all three files have been
\* fetched and have passed the 'PAR1' check, and a step of loadParquetFiles
\* in which a fetch fails or a file fails the check rejects the
\* initialization with no file registered on the engine of that run.
C23_RegistersOnlyAfterAllChecks ==
    [][/\ RegisterFile => filesChecked = FileSet
       /\ (FetchFile /\ setupPc' = "idle") =>
             /\ promiseState'[initializationPromise] = "rejected"
             /\ engine'[initializationPromise].registered = {}
             /\ db' = 0
       /\ \A r \in Runs :
             engine'[r].registered # engine[r].registered => filesChecked = FileSet]_vars

C23_Witness ==
    /\ setupRuns = 2
    /\ promiseState[1] = "rejected"
    /\ engine[1].spatial
    /\ engine[1].registered = {}
    /\ engine[2].registered = FileSet
    /\ filesChecked = FileSet

\* C27: a call of queryDuckDB closes the connection it opened before it
\* returns or throws: the step in which connection.query rejects and the
\* call ends with the error takes the connection away again, and so does
\* the step in which a successful call finishes.
C27_ConnectionClosedOnEveryPath ==
    [][\A c \in Callers :
          /\ (RunQuery(c) /\ caller'[c].pc = "failed") => openConns' = openConns - 1
          /\ CloseConnection(c) => openConns' = openConns - 1]_vars

(* Claims about the chat's loading flag *)

\* C24: the loading flag is set exactly while a handleQuery is suspended at
\* one of its awaits, and when every call the handler awaits returns or
\* fails, a set flag is cleared again, after which a submission is accepted.
C24_LoadingClearedWhenCallsSettle ==
    /\ [](loading <=> handleQueryPc \in {"analyze", "analyzeNoKey", "query", "explain"})
    /\ [](handleQueryPc \in {"idle", "analyze", "analyzeNoKey", "query", "explain"})
    /\ (loading ~> (~loading /\ handleQueryPc = "idle"))
    /\ [][(submits' # submits) => ~loading]_vars

C24_Witness ==
    /\ submits = 2
    /\ loading
    /\ handleQueryPc = "query"
    /\ Len(pipeline) = 3
    /\ \E k \in 1..Len(messages) :
          messages[k] = ErrorMessage(<<"Catalog Error: Table does not exist">>)

\* C25: a step of the input box or of a quick-action button, which starts a
\* handleQuery or posts the user's message, is taken only when loading is
\* not set and no handleQuery is suspended at an await, and loading is set
\* whenever one is; and the layer a handleQuery appends is the layer of the one
\* submission made since the last handler finished, so layers follow the
\* order of the submissions.
C25_OnePipelineAtATime ==
    /\ [][(submits' # submits \/ lastCall'.op = "handleQuickAction") =>
             (~loading /\ handleQueryPc = "idle")]_vars
    /\ [](handleQueryPc = "idle" \/ loading)
    /\ [][(Len(queryHistory') > Len(queryHistory)) =>
             /\ handleQueryPc = "explain"
             /\ handleQueryPc' = "idle"
             /\ queryHistory' = Append(queryHistory, queryHistory'[Len(queryHistory')])
             /\ submitted' = Append(submitted, queryText)]_vars

C25_Witness ==
    /\ submits = 2
    /\ ~loading
    /\ Len(queryHistory) = 2
    /\ submitted = <<DisplayRoadsInEstonia, FindRoadsNearTartu>>
    /\ \E k \in 1..Len(messages) : messages[k] = SaidByUser(DisplayRoadsInEstonia)

(* Claims about the viewport *)

\* C26: when no centre request is in flight and the request made last was
\* answered with a result, the viewport and the location label are those of
\* that request, whatever the order in which the answers arrived.
C26_LastRequestWins ==
    (pendingCenter = <<>> /\ newestCenter.state = "found") =>
        /\ currentLocation = newestCenter.place
        /\ viewState = CenteredOn(ResolverPosition(newestCenter.place)[1],
                                  ResolverPosition(newestCenter.place)[2])

\* C30: handleLocationSelect(place, lat, lon) with both coordinates other
\* than zero sets the viewport to (lon, lat) at zoom 13 and the label to
\* place and sends nothing to the place resolver; with lat or lon zero it
\* leaves viewport and label alone and hands place to handleCenterMap.
C30_SelectCentresOrDelegates ==
    [][\A selection \in LocationSelections :
          (/\ lastCall'.op = "handleLocationSelect"
           /\ handleLocationSelect(selection.place, selection.lat, selection.lon)) =>
             IF selection.lat # 0 /\ selection.lon # 0
             THEN /\ viewState' = [kind |-> "at", a |-> <<selection.lon, selection.lat, 13>>]
                  /\ currentLocation' = selection.place
                  /\ pendingCenter' = pendingCenter
             ELSE /\ viewState' = viewState
                  /\ currentLocation' = currentLocation
                  /\ pendingCenter' = Append(pendingCenter, selection.place)]_vars

C30_Witness ==
    /\ lastCall.op = "handleLocationSelect"
    /\ pendingCenter = <<"Greenwich, London">>
    /\ currentLocation = "Tallinn, Estonia"
    /\ viewState = [kind |-> "at", a |-> <<247, 594, 13>>]

(* Claims about the render list and the export selection *)

\* C29: the render-layer list holds exactly the visible layers of the
\* session, once each and in session order, each with the render id
\* 'query-' followed by the layer's id and with the layer's own data, and no
\* two entries of the list have the same render id.
C29_RenderListIsVisibleLayers ==
    /\ Len(layers) = Len(VisiblePositions)
    /\ \A k \in 1..Len(layers) :
          /\ layers[k].id = <<"query-">> \o queryHistory[VisiblePositions[k]].id
          /\ layers[k].data = queryHistory[VisiblePositions[k]].data
    /\ \A k, m \in 1..Len(layers) : k < m => layers[k].id # layers[m].id

\* C28: every id in the selection of the export panel is the id of a layer
\* of the session, the number of selected ids (the number on the export
\* button) is the number of layers an export would write, and an export
\* that the button allows writes at least one feature.
C28_SelectionWithinSession ==
    /\ \A k \in 1..Len(selectedQueries) : selectedQueries[k] \in LayerIds
    /\ Len(selectedQueries) = Len(QueriesToExport)
    /\ Len(selectedQueries) > 0 => GeoJSONFeatures(QueriesToExport) # <<>>

====
